---- MODULE Spec2Model ----
(***************************************************************************)
(* A model of dotfile_manager.py (class DotfileManager).                   *)
(*                                                                         *)
(* Strings are TLA+ strings, a path is a sequence of path segments, and    *)
(* the filesystem is a function from the paths that exist to their nodes   *)
(* (a directory, or a file with its content).                              *)
(***************************************************************************)
EXTENDS Integers, Sequences, FiniteSets, TLC

VARIABLES
    fs,                    \* the filesystem: path -> node
    dirOrder,              \* the order in which the OS enumerates names
    environment,           \* the fingerprint: sequence of <<type, value>>
    config,                \* self.config
    program_compatibility, \* self.program_compatibility
    pc,                    \* position of the running operation
    widget_arg,            \* widget_name argument of the running operation
    best_config,           \* result of select_best_config
    config_files,          \* result of get_config_files / argument of check_program_compatibility
    warnings,              \* result of check_program_compatibility
    mode,                  \* the top-level operation: "widget" or "all"
    use_config_fallback,   \* argument of install_widget
    widgets,               \* install_all_widgets: the widgets still to install
    pending,               \* install_widget: the pairs still to install
    success,               \* install_widget: its local `success`
    all_success,           \* install_all_widgets: its local `success`
    calls,                 \* log of the install_config calls of install_widget
    widget_results,        \* log of the install_widget calls of install_all_widgets
    widget_ret,            \* how the last install_widget ended
    all_ret,               \* how the last install_all_widgets ended
    ops,                   \* number of top-level operations started
    auto_config_rules,     \* self.auto_config_rules
    pull_args,             \* the arguments of pull_from_config
    env_folder,            \* pull_from_config: its local `env_folder`
    config_dirs,           \* pull_from_config: the directories still to copy
    response,              \* the answer typed at the confirmation prompt
    pulled,                \* log of the copies of pull_from_config
    pull_ret,              \* how the last pull_from_config ended
    fs_before,             \* the filesystem when pull_from_config was called
    repo_list_text,        \* the lines of the file self.repo_list_file
    last_op,               \* the last add_repo or remove_repo call and its result
    git,                   \* the install_from_git_repo calls: arguments, steps, result
    command,               \* the last command main ran: its argument and result
    exit_status,           \* what main returned
    os_environ,            \* os.environ: variable name -> value ("" when unset)
    ps                     \* what subprocess.run(['ps', '-e']) does: raises, or its stdout

\* the state of the installer's loops
control == <<mode, use_config_fallback, widgets, pending, success, all_success,
             calls, widget_results, widget_ret, all_ret, ops>>

\* the state of pull_from_config
pull_vars == <<auto_config_rules, pull_args, env_folder, config_dirs, response,
               pulled, pull_ret, fs_before>>

\* the process state that detect_environment reads
host == <<os_environ, ps>>

\* the state outside the installer
beyond == <<pull_vars, repo_list_text, last_op, git, command, exit_status, host>>

vars == <<fs, dirOrder, environment, config, program_compatibility, pc,
          widget_arg, best_config, config_files, warnings, control, beyond>>

(***************************** bounds **************************************)
MaxVariants == 2
MaxEnvKeys == 2
MaxFiles == 2
MaxOps == 1
MaxRegistryOps == 2
MaxGitOps == 2
MaxCommands == 2

(***************************** strings *************************************)
Ch(s, i) == SubSeq(s, i, i)

Rest(s) == SubSeq(s, 2, Len(s))

LowerChars == "abcdefghijklmnopqrstuvwxyz"

UpperChars == "ABCDEFGHIJKLMNOPQRSTUVWXYZ"

\* upper-case letter -> lower-case letter
LowerTable == [c \in {Ch(UpperChars, i) : i \in 1..26} |->
                  Ch(LowerChars, CHOOSE i \in 1..26 : Ch(UpperChars, i) = c)]

\* lower-case letter -> upper-case letter
UpperTable == [c \in {Ch(LowerChars, i) : i \in 1..26} |->
                  Ch(UpperChars, CHOOSE i \in 1..26 : Ch(LowerChars, i) = c)]

LowerCh(c) == IF c \in DOMAIN LowerTable THEN LowerTable[c] ELSE c

UpperCh(c) == IF c \in DOMAIN UpperTable THEN UpperTable[c] ELSE c

RECURSIVE lower(_)
lower(s) == IF Len(s) = 0 THEN "" ELSE LowerCh(Ch(s, 1)) \o lower(Rest(s))

RECURSIVE upper(_)
upper(s) == IF Len(s) = 0 THEN "" ELSE UpperCh(Ch(s, 1)) \o upper(Rest(s))

\* Python's `sub in s`
Contains(sub, s) ==
    \E i \in 1..(Len(s) - Len(sub) + 1) : SubSeq(s, i, i + Len(sub) - 1) = sub

startswith(s, prefix) ==
    Len(s) >= Len(prefix) /\ SubSeq(s, 1, Len(prefix)) = prefix

IsSpace(c) == c \in {" ", "\t", "\n"}

\* Python's str.split() with no argument: the whitespace-separated tokens
RECURSIVE split(_)
split(s) ==
    IF Len(s) = 0 THEN <<>>
    ELSE IF IsSpace(Ch(s, 1)) THEN split(Rest(s))
    ELSE LET n == CHOOSE k \in 1..Len(s) :
                      /\ \A i \in 1..k : ~IsSpace(Ch(s, i))
                      /\ k = Len(s) \/ IsSpace(Ch(s, k + 1))
         IN  <<SubSeq(s, 1, n)>> \o split(SubSeq(s, n + 1, Len(s)))

(***************************** paths and filesystem ************************)
NoPath == <<>>

repo_path == <<"repo">>

home == <<"home">>

home_config == home \o <<".config">>

Name(p) == p[Len(p)]

Parent(p) == SubSeq(p, 1, Len(p) - 1)

Dir == [kind |-> "dir", content |-> ""]

File(c) == [kind |-> "file", content |-> c]

exists(f, p) == p \in DOMAIN f

is_dir(f, p) == exists(f, p) /\ f[p].kind = "dir"

is_file(f, p) == exists(f, p) /\ f[p].kind = "file"

\* Path.iterdir(): the children of d, in the order the OS enumerates them
iterdir(f, d) ==
    LET names == SelectSeq(dirOrder, LAMBDA n : exists(f, d \o <<n>>))
    IN  [i \in 1..Len(names) |-> d \o <<names[i]>>]

\* str(path): the segments joined with "/"
RECURSIVE str_path(_)
str_path(p) == IF p = <<>> THEN "" ELSE "/" \o Head(p) \o str_path(Tail(p))

\* the "/"-separated segments of a string, empty segments dropped
RECURSIVE Segments(_)
Segments(s) ==
    IF Len(s) = 0 THEN <<>>
    ELSE IF Ch(s, 1) = "/" THEN Segments(Rest(s))
    ELSE LET n == CHOOSE k \in 1..Len(s) :
                      /\ \A i \in 1..k : Ch(s, i) # "/"
                      /\ k = Len(s) \/ Ch(s, k + 1) = "/"
         IN  <<SubSeq(s, 1, n)>> \o Segments(SubSeq(s, n + 1, Len(s)))

\* Path(s) for an absolute path string
Path(s) == Segments(s)

\* base / s: an absolute s replaces base
PathJoin(base, s) == IF startswith(s, "/") THEN Path(s) ELSE base \o Segments(s)

\* Path.stem: the name up to its last dot, unless the dot is first or last
stem(name) ==
    LET dots == {k \in 1..Len(name) : Ch(name, k) = "."}
        last == CHOOSE k \in dots : \A j \in dots : j <= k
    IN  IF dots # {} /\ 1 < last /\ last < Len(name)
        THEN SubSeq(name, 1, last - 1) ELSE name

\* the walk below the entries `items`, each directory followed by its content
RECURSIVE Walk(_, _)
Walk(f, items) ==
    IF items = <<>> THEN <<>>
    ELSE <<Head(items)>>
         \o (IF is_dir(f, Head(items)) THEN Walk(f, iterdir(f, Head(items))) ELSE <<>>)
         \o Walk(f, Tail(items))

\* Path.rglob('*')
rglob(f, d) == Walk(f, iterdir(f, d))

\* Path.relative_to
relative_to(p, base) == SubSeq(p, Len(base) + 1, Len(p))

\* the directory d with the directories `rels` below it
MakeTree(d, rels) == [p \in {d} \cup {d \o rel : rel \in rels} |-> Dir]

\* the concatenation of Op(seq[1]), Op(seq[2]), ...
RECURSIVE FlatMap(_, _)
FlatMap(Op(_), seq) ==
    IF seq = <<>> THEN <<>> ELSE Op(Head(seq)) \o FlatMap(Op, Tail(seq))

(***************************** select_best_config **************************)
\* find_widget_configs without the `default` entry appended
find_widget_configs_no_default(f, widget_name) ==
    LET widget_path == repo_path \o <<widget_name>>
    IN  IF ~exists(f, widget_path) THEN <<>>
        ELSE SelectSeq(iterdir(f, widget_path),
                       LAMBDA item : is_dir(f, item) /\ Name(item) # "default")

find_widget_configs(f, widget_name) ==
    LET widget_path == repo_path \o <<widget_name>>
        default_path == widget_path \o <<"default">>
    IN  IF ~exists(f, widget_path) THEN <<>>
        ELSE SelectSeq(iterdir(f, widget_path),
                       LAMBDA item : is_dir(f, item) /\ Name(item) # "default")
             \o (IF exists(f, default_path) THEN <<default_path>> ELSE <<>>)

\* the first loop comparing the value as given, not lower-cased
RECURSIVE ExactPoints_case_sensitive(_, _)
ExactPoints_case_sensitive(env, config_name) ==
    IF env = <<>> THEN 0
    ELSE LET env_value == Head(env)[2]
         IN  (IF env_value # "" /\ Contains(env_value, config_name)
              THEN 2 ELSE 0)
             + ExactPoints_case_sensitive(Tail(env), config_name)

\* the first loop over environment.items(): +2 per value found whole
RECURSIVE ExactPoints(_, _)
ExactPoints(env, config_name) ==
    IF env = <<>> THEN 0
    ELSE LET env_value == Head(env)[2]
         IN  (IF env_value # "" /\ Contains(lower(env_value), config_name)
              THEN 2 ELSE 0)
             + ExactPoints(Tail(env), config_name)

\* the second loop giving its point only to a value that did not match whole
RECURSIVE PartialPoints_only_if_not_exact(_, _)
PartialPoints_only_if_not_exact(env, config_name) ==
    IF env = <<>> THEN 0
    ELSE LET env_value == Head(env)[2]
             parts == split(lower(env_value))
         IN  (IF env_value # ""
                 /\ ~Contains(lower(env_value), config_name)
                 /\ \E k \in 1..Len(parts) : Contains(parts[k], config_name)
              THEN 1 ELSE 0)
             + PartialPoints_only_if_not_exact(Tail(env), config_name)

\* the second loop over environment.items(): +1 per value with a token found
RECURSIVE PartialPoints(_, _)
PartialPoints(env, config_name) ==
    IF env = <<>> THEN 0
    ELSE LET env_value == Head(env)[2]
             parts == split(lower(env_value))
         IN  (IF env_value # ""
                 /\ \E k \in 1..Len(parts) : Contains(parts[k], config_name)
              THEN 1 ELSE 0)
             + PartialPoints(Tail(env), config_name)

Score(config_path, env) ==
    LET config_name == lower(Name(config_path))
    IN  ExactPoints(env, config_name) + PartialPoints(env, config_name)

\* is this entry of configs passed over by the scoring loop?
SkippedByScorer(config_path) == Name(config_path) = "default"

\* the loop with `score >= best_score`: a later equal score replaces the best
RECURSIVE BestFrom_last_tie(_, _, _, _, _)
BestFrom_last_tie(configs, i, env, best, best_score) ==
    IF i > Len(configs) THEN best
    ELSE IF SkippedByScorer(configs[i])
         THEN BestFrom_last_tie(configs, i + 1, env, best, best_score)
         ELSE LET score == Score(configs[i], env)
              IN  IF score >= best_score /\ score > 0
                  THEN BestFrom_last_tie(configs, i + 1, env, configs[i], score)
                  ELSE BestFrom_last_tie(configs, i + 1, env, best, best_score)

\* the loop `for config_path in configs`, from position i on
RECURSIVE BestFrom(_, _, _, _, _)
BestFrom(configs, i, env, best, best_score) ==
    IF i > Len(configs) THEN best
    ELSE IF SkippedByScorer(configs[i])
         THEN BestFrom(configs, i + 1, env, best, best_score)
         ELSE LET score == Score(configs[i], env)
              IN  IF score > best_score
                  THEN BestFrom(configs, i + 1, env, configs[i], score)
                  ELSE BestFrom(configs, i + 1, env, best, best_score)

select_best_config(f, widget_name, env) ==
    LET configs == find_widget_configs(f, widget_name)
        scored == BestFrom(configs, 1, env, NoPath, 0)
        default_path == repo_path \o <<widget_name, "default">>
    IN  IF configs = <<>> THEN NoPath
        ELSE IF scored # NoPath THEN scored
        ELSE IF exists(f, default_path) THEN default_path
        ELSE NoPath

(***************************** get_config_files ****************************)
\* an empty dict
EmptyMap == [x \in {} |-> ""]

\* dict.get(key, {})
GetMap(d, key) == IF key \in DOMAIN d THEN d[key] ELSE EmptyMap

\* the classifier also taking the files whose name starts with "."
SkippedByClassifier_keeps_hidden(f, item) == ~is_file(f, item)

\* does the walk of get_config_files pass over this entry?
SkippedByClassifier(f, item) == ~is_file(f, item) \/ startswith(Name(item), ".")

\* the destination directory computed for one file of config_path
target_dir_of(cfg, config_path, item) ==
    LET relative_path == relative_to(item, config_path)
        widget_name == Name(Parent(config_path))
        custom_mappings == GetMap(cfg.custom_mappings, widget_name)
    IN  IF Len(relative_path) > 1
        THEN IF relative_path[1] \in DOMAIN custom_mappings
             THEN PathJoin(home_config, custom_mappings[relative_path[1]])
             ELSE PathJoin(home_config, relative_path[1])
        ELSE PathJoin(home_config, stem(Name(item)))

get_config_files(f, cfg, config_path) ==
    LET items == SelectSeq(rglob(f, config_path),
                           LAMBDA item : ~SkippedByClassifier(f, item))
    IN  [i \in 1..Len(items) |->
            <<items[i], str_path(target_dir_of(cfg, config_path, items[i]))>>]

(***************************** check_program_compatibility *****************)
WarningIcon == "(!)"

InfoIcon == "(i)"

\* program_name of a (source_path, target_dir) pair
ProgramOf(pair) == Name(Path(pair[2]))

\* the keys of program_files in insertion order
RECURSIVE ProgramOrder(_, _)
ProgramOrder(pairs, seen) ==
    IF pairs = <<>> THEN <<>>
    ELSE IF ProgramOf(Head(pairs)) \in seen THEN ProgramOrder(Tail(pairs), seen)
    ELSE <<ProgramOf(Head(pairs))>>
         \o ProgramOrder(Tail(pairs), seen \cup {ProgramOf(Head(pairs))})

\* program_files[program_name]
FilesOf(pairs, program_name) ==
    SelectSeq(pairs, LAMBDA pair : ProgramOf(pair) = program_name)

\* the grouping taken from the passed-in pairs whatever the widget
GroupedPairs_passed_only(f, cfg, cfiles, widget_name) == cfiles

\* the pairs check_program_compatibility groups by program
GroupedPairs(f, cfg, cfiles, widget_name) ==
    LET all_configs == find_widget_configs(f, widget_name)
        all_pairs(config_path) == get_config_files(f, cfg, config_path)
    IN  IF widget_name # "" /\ Len(all_configs) > 1
        THEN FlatMap(all_pairs, all_configs)
        ELSE cfiles

\* the lines added to single_config_warnings for one program
WarningLines(rules, pairs, program_name) ==
    LET files == FilesOf(pairs, program_name)
        warning_info == rules.single_config_only[program_name]
        detail(pair) ==
            <<"     - " \o Name(Parent(Parent(pair[1]))) \o ": " \o Name(pair[1])>>
    IN  IF Len(files) > 1 /\ program_name \in DOMAIN rules.single_config_only
        THEN <<WarningIcon \o "  " \o upper(program_name) \o ": " \o warning_info.warning,
               "   Suggestion: " \o warning_info.suggestion>>
             \o (IF FlatMap(detail, files) # <<>>
                 THEN <<"   Conflicting files:">> \o FlatMap(detail, files)
                 ELSE <<>>)
        ELSE <<>>

\* the info lines added also for a program that got a warning
InfoLines_not_exclusive(rules, pairs, program_name) ==
    LET files == FilesOf(pairs, program_name)
        info_data == rules.supports_multiple_configs[program_name]
    IN  IF /\ Len(files) > 1
           /\ program_name \in DOMAIN rules.supports_multiple_configs
        THEN <<InfoIcon \o "  " \o upper(program_name) \o ": " \o info_data.info,
               "   Suggestion: " \o info_data.suggestion>>
        ELSE <<>>

\* the lines added to multiple_config_info for one program
InfoLines(rules, pairs, program_name) ==
    LET files == FilesOf(pairs, program_name)
        info_data == rules.supports_multiple_configs[program_name]
    IN  IF /\ Len(files) > 1
           /\ program_name \notin DOMAIN rules.single_config_only
           /\ program_name \in DOMAIN rules.supports_multiple_configs
        THEN <<InfoIcon \o "  " \o upper(program_name) \o ": " \o info_data.info,
               "   Suggestion: " \o info_data.suggestion>>
        ELSE <<>>

\* install_widget going on without the check: no message is emitted
check_program_compatibility_not_run(f, cfg, rules, cfiles, widget_name) ==
    [single_config_warnings |-> <<>>, multiple_config_info |-> <<>>]

check_program_compatibility(f, cfg, rules, cfiles, widget_name) ==
    LET program_files == GroupedPairs(f, cfg, cfiles, widget_name)
        programs == ProgramOrder(program_files, {})
        warning_lines(program_name) == WarningLines(rules, program_files, program_name)
        info_lines(program_name) == InfoLines(rules, program_files, program_name)
    IN  [single_config_warnings |-> FlatMap(warning_lines, programs),
         multiple_config_info |-> FlatMap(info_lines, programs)]

(***************************** install_config *****************************)
backup_dir == home \o <<".config_backup">>

\* what a call gives: did it raise, its return value if it did not, and the
\* filesystem it leaves
Result(raised, ret, f) == [raised |-> raised, ret |-> ret, fs |-> f]

Raised(f) == Result(TRUE, FALSE, f)

Done(f) == Result(FALSE, TRUE, f)

Failed(f) == Result(FALSE, FALSE, f)

\* f with path p holding node
Put(f, p, node) == [q \in DOMAIN f \cup {p} |-> IF q = p THEN node ELSE f[q]]

\* Path.mkdir(parents=..., exist_ok=...)
RECURSIVE mkdir(_, _, _, _)
mkdir(f, d, parents, exist_ok) ==
    IF exists(f, d)
    THEN IF is_dir(f, d) /\ exist_ok THEN Done(f) ELSE Raised(f)
    ELSE IF exists(f, Parent(d))
    THEN IF is_dir(f, Parent(d)) THEN Done(Put(f, d, Dir)) ELSE Raised(f)
    ELSE IF parents /\ Len(d) > 1
    THEN LET made == mkdir(f, Parent(d), TRUE, TRUE)
         IN  IF made.raised THEN made ELSE Done(Put(made.fs, d, Dir))
    ELSE Raised(f)

\* shutil.copy2(src, dst); io_ok is false when the OS refuses the copy
copy2(f, src, dst, io_ok) ==
    LET target == IF is_dir(f, dst) THEN dst \o <<Name(src)>> ELSE dst
    IN  IF \/ ~io_ok
           \/ ~is_file(f, src)
           \/ src = target
           \/ is_dir(f, target)
           \/ ~is_dir(f, Parent(target))
        THEN Raised(f)
        ELSE Done(Put(f, target, File(f[src].content)))

\* str(counter)
str_int(n) == ToString(n)

\* the backup path with a number from the start: name.1, name.2, ...
RECURSIVE FreeBackupPath_numbered_from_start(_, _, _, _)
FreeBackupPath_numbered_from_start(f, backup_path, name, counter) ==
    IF exists(f, backup_dir \o <<name \o "." \o str_int(counter)>>)
    THEN FreeBackupPath_numbered_from_start(f, backup_path, name, counter + 1)
    ELSE backup_dir \o <<name \o "." \o str_int(counter)>>

\* the backup path taken without looking for a free name
FreeBackupPath_first_name(f, backup_path, name, counter) == backup_path

\* the loop `while backup_path.exists()` of backup_existing
RECURSIVE FreeBackupPath(_, _, _, _)
FreeBackupPath(f, backup_path, name, counter) ==
    IF exists(f, backup_path)
    THEN FreeBackupPath(f, backup_dir \o <<name \o "." \o str_int(counter)>>,
                        name, counter + 1)
    ELSE backup_path

\* backup_existing; io_ok is false when the OS refuses the copy
backup_existing(f, cfg, target_path, io_ok) ==
    IF ~exists(f, target_path) THEN Done(f)
    ELSE IF ~cfg.backup_existing THEN Done(f)
    ELSE LET made == IF cfg.create_backup_dir
                     THEN mkdir(f, backup_dir, FALSE, TRUE)
                     ELSE Done(f)
             backup_path ==
                 FreeBackupPath(made.fs, backup_dir \o <<Name(target_path)>>,
                                Name(target_path), 1)
             copied == copy2(made.fs, target_path, backup_path, io_ok)
         IN  IF made.raised THEN made
             ELSE IF copied.raised THEN Failed(made.fs)
             ELSE Done(copied.fs)

\* install_config creating the destination directory before its dry-run test
install_config_mkdir_first(f, cfg, source_path, target_dir, io) ==
    LET target_path == PathJoin(Path(target_dir), Name(source_path))
        made == mkdir(f, Parent(target_path), TRUE, TRUE)
        backup == backup_existing(made.fs, cfg, target_path, io.backup_ok)
        copied == copy2(backup.fs, source_path, target_path, io.copy_ok)
    IN  IF made.raised THEN made
        ELSE IF cfg.dry_run THEN Done(made.fs)
        ELSE IF backup.raised \/ ~backup.ret THEN backup
        ELSE IF copied.raised THEN Failed(backup.fs)
        ELSE Done(copied.fs)

\* install_config going on to its copy when the backup failed
install_config_ignoring_backup(f, cfg, source_path, target_dir, io) ==
    LET target_path == PathJoin(Path(target_dir), Name(source_path))
        made == mkdir(f, Parent(target_path), TRUE, TRUE)
        backup == backup_existing(made.fs, cfg, target_path, io.backup_ok)
        copied == copy2(backup.fs, source_path, target_path, io.copy_ok)
    IN  IF cfg.dry_run THEN Done(f)
        ELSE IF made.raised THEN made
        ELSE IF backup.raised THEN backup
        ELSE IF copied.raised THEN Failed(backup.fs)
        ELSE Done(copied.fs)

\* install_config; io tells which of its two copies the OS refuses
install_config(f, cfg, source_path, target_dir, io) ==
    LET target_path == PathJoin(Path(target_dir), Name(source_path))
        made == mkdir(f, Parent(target_path), TRUE, TRUE)
        backup == backup_existing(made.fs, cfg, target_path, io.backup_ok)
        copied == copy2(backup.fs, source_path, target_path, io.copy_ok)
    IN  IF cfg.dry_run THEN Done(f)
        ELSE IF made.raised THEN made
        ELSE IF backup.raised \/ ~backup.ret THEN backup
        ELSE IF copied.raised THEN Failed(backup.fs)
        ELSE Done(copied.fs)

(***************************** pull_from_config ***************************)
endswith(s, suffix) ==
    Len(s) >= Len(suffix) /\ SubSeq(s, Len(s) - Len(suffix) + 1, Len(s)) = suffix

\* fnmatch for the patterns "*<suffix>" and "<name>"
fnmatch(name, pattern) ==
    IF startswith(pattern, "*") THEN endswith(name, Rest(pattern)) ELSE name = pattern

\* is p at or below directory d?
IsUnder(p, d) == Len(p) >= Len(d) /\ SubSeq(p, 1, Len(d)) = d

\* shutil.rmtree(d)
rmtree(f, d) ==
    IF ~is_dir(f, d) THEN Raised(f)
    ELSE Done([p \in {q \in DOMAIN f : ~IsUnder(q, d)} |-> f[p]])

\* shutil.copytree(src, dst, ignore=ignore_patterns(*patterns)); io is what
\* the OS does: "ok", "refused" (nothing is written) or "partial" (the
\* directories are made, the files are refused and the error is raised last)
copytree(f, src, dst, patterns, io) ==
    LET made == mkdir(f, dst, TRUE, FALSE)
        ignored(name) == \E i \in 1..Len(patterns) : fnmatch(name, patterns[i])
        kept == {p \in DOMAIN f :
                    /\ IsUnder(p, src)
                    /\ p # src
                    /\ \A k \in (Len(src) + 1)..Len(p) : ~ignored(p[k])
                    /\ io = "partial" => is_dir(f, p)}
        target(p) == dst \o relative_to(p, src)
        written == [q \in DOMAIN made.fs \cup {target(p) : p \in kept} |->
                       IF \E p \in kept : target(p) = q
                       THEN f[CHOOSE p \in kept : target(p) = q]
                       ELSE made.fs[q]]
    IN  IF io = "refused" \/ ~is_dir(f, src) THEN Raised(f)
        ELSE IF made.raised THEN made
        ELSE IF io = "partial" THEN Raised(written)
        ELSE Done(written)

\* detected_env.get('window_manager', 'default')
env_name(env) ==
    IF \E i \in 1..Len(env) : env[i][1] = "window_manager"
    THEN env[CHOOSE i \in 1..Len(env) : env[i][1] = "window_manager"][2]
    ELSE "default"

\* widget_path of pull_from_config
pull_widget_path(args) ==
    IF args.output_dir # NoPath THEN args.output_dir \o <<args.widget_name>>
    ELSE repo_path \o <<args.widget_name>>

\* env_folder of pull_from_config
pull_env_folder(args, env) ==
    pull_widget_path(args)
    \o <<IF args.environment # "" THEN args.environment ELSE env_name(env)>>

\* the two directory creations at the head of pull_from_config
pull_make_folders(f, args, env) ==
    LET widget_path == pull_widget_path(args)
        made == IF ~exists(f, widget_path)
                THEN mkdir(f, widget_path, TRUE, TRUE) ELSE Done(f)
    IN  IF made.raised THEN made
        ELSE mkdir(made.fs, pull_env_folder(args, env), TRUE, TRUE)

\* the union of the lists of a dict of lists
Flatten(categories) == UNION {categories[c] : c \in DOMAIN categories}

\* config_dirs of pull_from_config
pull_config_dirs(f, rules, args) ==
    LET named == [i \in 1..Len(args.specific_programs) |->
                     home_config \o <<args.specific_programs[i]>>]
        suitable(item) ==
            /\ is_dir(f, item)
            /\ ~startswith(Name(item), ".")
            /\ Name(item) \notin Flatten(rules.exclude_directories)
            /\ \/ Name(item) \in Flatten(rules.include_programs)
               \/ \E i \in 1..Len(rules.include_keywords) :
                      Contains(rules.include_keywords[i], lower(Name(item)))
    IN  IF args.specific_programs # <<>>
        THEN SelectSeq(named, LAMBDA program_path : is_dir(f, program_path))
        ELSE SelectSeq(iterdir(f, home_config), suitable)

\* one turn of the loop of pull_from_config: the copy of config_dir; ret
\* tells whether the copy was made, raised whether an error left the loop
pull_copy(f, rules, folder, config_dir, io) ==
    LET target_dir == folder \o <<Name(config_dir)>>
        removed == IF exists(f, target_dir) THEN rmtree(f, target_dir) ELSE Done(f)
        copied == copytree(removed.fs, config_dir, target_dir,
                           rules.ignore_patterns, io)
    IN  IF removed.raised THEN removed
        ELSE IF copied.raised THEN Failed(copied.fs)
        ELSE copied

(***************************** the repository registry **********************)
\* str.strip(): the string without its leading and trailing whitespace
RECURSIVE strip(_)
strip(s) ==
    IF Len(s) = 0 THEN s
    ELSE IF IsSpace(Ch(s, 1)) THEN strip(Rest(s))
    ELSE IF IsSpace(Ch(s, Len(s))) THEN strip(SubSeq(s, 1, Len(s) - 1))
    ELSE s

\* str.strip(c) for one character c
RECURSIVE strip_char(_, _)
strip_char(s, c) ==
    IF Len(s) = 0 THEN s
    ELSE IF Ch(s, 1) = c THEN strip_char(Rest(s), c)
    ELSE IF Ch(s, Len(s)) = c THEN strip_char(SubSeq(s, 1, Len(s) - 1), c)
    ELSE s

\* str.split(sep) for one character sep: the parts, empty ones kept
RECURSIVE split_on(_, _)
split_on(s, sep) ==
    IF \E i \in 1..Len(s) : Ch(s, i) = sep
    THEN LET first == CHOOSE i \in 1..Len(s) :
                          Ch(s, i) = sep /\ \A j \in 1..(i - 1) : Ch(s, j) # sep
         IN  <<SubSeq(s, 1, first - 1)>> \o split_on(SubSeq(s, first + 1, Len(s)), sep)
    ELSE <<s>>

\* sep.join(parts)
RECURSIVE join(_, _)
join(parts, sep) ==
    IF parts = <<>> THEN ""
    ELSE IF Len(parts) = 1 THEN parts[1]
    ELSE parts[1] \o sep \o join(Tail(parts), sep)

\* one entry of the registry
RepoEntry(name, url, description, tags) ==
    [name |-> name, url |-> url, description |-> description, tags |-> tags]

\* the entry load_repo_list makes of one line of the file, <<>> if none
parse_line(raw, line_num) ==
    LET line == strip(raw)
        parts == split_on(line, "|")
    IN  IF line = "" \/ startswith(line, "#") \/ Len(parts) < 2 THEN <<>>
        ELSE <<RepoEntry(strip(parts[1]), strip(parts[2]),
                         IF Len(parts) > 2 THEN strip(parts[3]) ELSE "",
                         IF Len(parts) > 3 THEN split_on(strip(parts[4]), ",") ELSE <<>>)
                 @@ [line_number |-> line_num]>>

\* load_repo_list: the entries of the lines from position i on
RECURSIVE load_from(_, _)
load_from(text, i) ==
    IF i > Len(text) THEN <<>>
    ELSE parse_line(text[i], i) \o load_from(text, i + 1)

load_repo_list(text) == load_from(text, 1)

RepoListHeader ==
    <<"# Compatible Dotfile Repositories",
      "# Format: name|url|description|tags (comma-separated)",
      "# Example: my-theme|https://github.com/user/my-theme.git|A beautiful theme|hyprland,eww",
      "">>

\* the line save_repo_list writes for one entry
format_line(repo) ==
    repo.name \o "|" \o repo.url \o "|" \o repo.description \o "|"
    \o join(repo.tags, ",")

\* save_repo_list; io_ok is false when the OS refuses to open the file
save_repo_list(text, repos, io_ok) ==
    IF io_ok
    THEN [ret |-> TRUE,
          text |-> RepoListHeader \o [i \in 1..Len(repos) |-> format_line(repos[i])]]
    ELSE [ret |-> FALSE, text |-> text]

\* urllib.parse.urlparse(url): its netloc and path, for a url with no query
urlparse(url) ==
    LET marks == {i \in 1..(Len(url) - 2) : SubSeq(url, i, i + 2) = "://"}
        mark == CHOOSE i \in marks : \A j \in marks : i <= j
        rest == SubSeq(url, mark + 3, Len(url))
        slashes == {i \in 1..Len(rest) : Ch(rest, i) = "/"}
        slash == CHOOSE i \in slashes : \A j \in slashes : i <= j
    IN  IF marks = {} THEN [netloc |-> "", path |-> url]
        ELSE IF slashes = {} THEN [netloc |-> rest, path |-> ""]
        ELSE [netloc |-> SubSeq(rest, 1, slash - 1),
              path |-> SubSeq(rest, slash, Len(rest))]

extract_repo_name_from_url(url) ==
    LET parsed == urlparse(url)
        stripped == strip_char(parsed.path, "/")
        path == IF endswith(stripped, ".git")
                THEN SubSeq(stripped, 1, Len(stripped) - 4) ELSE stripped
        parts == split_on(path, "/")
    IN  IF parsed.netloc \in {"github.com", "gitlab.com", "bitbucket.org"}
        THEN parts[Len(parts)]
        ELSE IF path # "" THEN parts[Len(parts)] ELSE "unknown-repo"

\* add_repo; a name of "" stands for None; metadata is what the fetch gave,
\* with "" and <<>> where it gave nothing or failed
add_repo(text, url, description, tags, name_arg, fetch_metadata, metadata, io_ok) ==
    LET name == IF name_arg = "" THEN extract_repo_name_from_url(url) ELSE name_arg
        repos == load_repo_list(text)
        fetched == fetch_metadata /\ description = "" /\ tags = <<>>
        new_repo ==
            RepoEntry(name, url,
                      IF fetched /\ metadata.description # ""
                      THEN metadata.description ELSE description,
                      IF fetched /\ metadata.tags # <<>> THEN metadata.tags ELSE tags)
    IN  IF \E i \in 1..Len(repos) : repos[i].name = name \/ repos[i].url = url
        THEN [ret |-> FALSE, text |-> text]
        ELSE save_repo_list(text, Append(repos, new_repo), io_ok)

remove_repo(text, name, io_ok) ==
    LET repos == load_repo_list(text)
        kept == SelectSeq(repos, LAMBDA repo : repo.name # name)
    IN  IF Len(kept) = Len(repos) THEN [ret |-> FALSE, text |-> text]
        ELSE save_repo_list(text, kept, io_ok)

\* no registry call made yet
NoOp ==
    [kind |-> "none", url |-> "", description |-> "", tags |-> <<>>, name |-> "",
     fetch_metadata |-> FALSE, ret |-> FALSE, before |-> <<>>, count |-> 0]

(***************************** install_from_git_repo **********************)
git_repos_dir == repo_path \o <<"git_repos">>

local_path(repo_name) == git_repos_dir \o <<repo_name>>

\* the entries of the registry named repo_name; the code takes the first
find_repo(text, repo_name) ==
    SelectSeq(load_repo_list(text), LAMBDA repo : repo.name = repo_name)

\* the tree a git command leaves at lp: a complete checkout with a widget, a
\* checkout with no widget directory, or the incomplete tree of a clone or
\* pull that stopped half way
GitTree(lp, tree) ==
    IF tree = "complete"
    THEN Put(MakeTree(lp, {<<".git">>, <<"bar">>, <<"bar", "default">>,
                           <<"bar", "default", "waybar">>}),
             lp \o <<"bar", "default", "waybar", "config">>, File("remote"))
    ELSE IF tree = "no_widgets"
    THEN Put(MakeTree(lp, {<<".git">>}), lp \o <<"README">>, File("readme"))
    ELSE Put(MakeTree(lp, {<<".git">>, <<"bar">>, <<"bar", "default">>,
                           <<"bar", "default", "waybar">>}),
             lp \o <<"bar", "default", "waybar", "config">>, File("partial"))

\* f with the tree at lp replaced by what the git command left
GitWrite(f, lp, tree) ==
    GitTree(lp, tree) @@ [p \in {q \in DOMAIN f : ~IsUnder(q, lp)} |-> f[p]]

\* clone_repo; outcome is what the git process did: its exit status (ok) and
\* the tree it left ("untouched": it wrote nothing)
clone_repo(f, repo_info, force_update, outcome) ==
    LET lp == local_path(repo_info.name)
        made == mkdir(f, git_repos_dir, FALSE, TRUE)
        left == IF outcome.tree = "untouched" THEN made.fs
                ELSE GitWrite(made.fs, lp, outcome.tree)
    IN  IF made.raised THEN made
        ELSE IF exists(made.fs, lp) /\ ~force_update THEN Done(made.fs)
        ELSE IF outcome.ok THEN Done(left)
        ELSE Failed(left)

\* check_repo_compatibility: is_compatible and widgets
check_repo_compatibility(f, rp) ==
    LET dirs == SelectSeq(iterdir(f, rp),
                          LAMBDA item : is_dir(f, item) /\ ~startswith(Name(item), "."))
        found == [i \in 1..Len(dirs) |-> Name(dirs[i])]
    IN  IF ~exists(f, rp) THEN [is_compatible |-> FALSE, widgets |-> <<>>]
        ELSE [is_compatible |-> found # <<>>, widgets |-> found]

\* the filesystem the methods see while self.repo_path is root
with_repo_path(f, root) ==
    LET outside == {p \in DOMAIN f : ~IsUnder(p, repo_path)}
        inside == {repo_path \o relative_to(q, root) :
                      q \in {q \in DOMAIN f : IsUnder(q, root)}}
    IN  [p \in outside \cup inside |->
            IF p \in outside THEN f[p] ELSE f[root \o relative_to(p, repo_path)]]

\* the filesystem once self.repo_path is restored: f below the original
\* repo_path, and what the methods left in `seen` elsewhere
restore_repo_path(f, seen) ==
    LET below == {p \in DOMAIN f : IsUnder(p, repo_path)}
        outside == {p \in DOMAIN seen : ~IsUnder(p, repo_path)}
    IN  [p \in below \cup outside |-> IF p \in below THEN f[p] ELSE seen[p]]

\* what install_widget and install_all_widgets give: Result and the
\* install_config calls made
Installed(r, made_calls) ==
    [raised |-> r.raised, ret |-> r.ret, fs |-> r.fs, calls |-> made_calls]

\* the record of one install_config call
CallRecord(pair, call) ==
    [source_path |-> pair[1], target_dir |-> pair[2],
     ret |-> IF call.raised THEN "raised" ELSE IF call.ret THEN "True" ELSE "False"]

\* the loop of install_widget over its pairs (each call and the rest of the
\* loop are evaluated once, as members of one-element sets)
RECURSIVE install_pairs(_, _, _, _, _)
install_pairs(f, cfg, pairs, io, ok) ==
    IF pairs = <<>> THEN Installed(Result(FALSE, ok, f), <<>>)
    ELSE CHOOSE r \in
             { IF call.raised THEN Installed(call, <<CallRecord(Head(pairs), call)>>)
               ELSE CHOOSE all \in
                        { Installed(rest, <<CallRecord(Head(pairs), call)>> \o rest.calls) :
                             rest \in {install_pairs(call.fs, cfg, Tail(pairs), io,
                                                     ok /\ call.ret)} } : TRUE :
                  call \in {install_config(f, cfg, Head(pairs)[1], Head(pairs)[2], io)} } :
             TRUE

\* install_widget(widget_name, environment, use_config_fallback) in one piece
install_widget(f, cfg, widget_name, env, use_fallback, io) ==
    CHOOSE r \in
        { IF found = <<>> THEN Installed(Failed(f), <<>>)
          ELSE install_pairs(f, cfg, found, io, TRUE) :
             found \in { CHOOSE files \in
                             { IF config_path = NoPath /\ ~use_fallback THEN <<>>
                               ELSE IF config_path = NoPath
                               THEN get_config_files(f, cfg, home_config)
                               ELSE get_config_files(f, cfg, config_path) :
                                  config_path \in {select_best_config(f, widget_name, env)} } :
                             TRUE } } :
        TRUE

\* the loop of install_all_widgets
RECURSIVE install_each(_, _, _, _, _, _)
install_each(f, cfg, names, env, io, ok) ==
    IF names = <<>> THEN Installed(Result(FALSE, ok, f), <<>>)
    ELSE CHOOSE r \in
             { IF one.raised THEN one
               ELSE CHOOSE all \in
                        { Installed(rest, one.calls \o rest.calls) :
                             rest \in {install_each(one.fs, cfg, Tail(names), env, io,
                                                    ok /\ one.ret)} } : TRUE :
                  one \in {install_widget(f, cfg, Head(names), env, FALSE, io)} } :
             TRUE

\* install_all_widgets(environment) in one piece
install_all_widgets(f, cfg, env, io) ==
    CHOOSE r \in
        { IF names = <<>> THEN Installed(Failed(f), <<>>)
          ELSE install_each(f, cfg, names, env, io, TRUE) :
             names \in { [i \in 1..Len(dirs) |-> Name(dirs[i])] :
                            dirs \in {SelectSeq(iterdir(f, repo_path),
                                         LAMBDA d : is_dir(f, d)
                                                    /\ ~startswith(Name(d), "."))} } } :
        TRUE

\* the last step of install_from_git_repo, on the filesystem as seen with
\* self.repo_path set to the clone; a widget_name of "" stands for None
install_from_clone(seen, cfg, widget_name, env, io) ==
    IF widget_name # "" THEN install_widget(seen, cfg, widget_name, env, FALSE, io)
    ELSE install_all_widgets(seen, cfg, env, io)

\* list_widgets(): the non-hidden directories of self.repo_path, which are
\* also the widgets install_all_widgets installs
list_widgets(f) ==
    LET dirs == SelectSeq(iterdir(f, repo_path),
                          LAMBDA d : is_dir(f, d) /\ ~startswith(Name(d), "."))
    IN  [i \in 1..Len(dirs) |-> Name(dirs[i])]

\* no command run yet
NoCommand == [kind |-> "none", arg |-> "", not_found |-> FALSE, ret |-> "none", count |-> 0]

\* no install_from_git_repo call made yet
NoGit ==
    [repo_name |-> "", widget_name |-> "", force_update |-> FALSE, steps |-> <<>>,
     ret |-> "none", left_by_failure |-> {}, count |-> 0, root |-> repo_path]

(***************************** detect_environment ***************************)
\* the managers _detect_window_manager knows, in the order it tests them
WindowManagers == <<"hyprland", "labwc", "sway", "i3", "openbox", "fluxbox">>

\* the managers it looks for in the process list
ProcessManagers == SubSeq(WindowManagers, 1, 4)

\* the compositors _detect_compositor looks for in the process list
ProcessCompositors == <<"picom", "compton", "xcompmgr">>

\* an if/elif chain of `name in s` tests: the first name of names found in s,
\* "" when none is
RECURSIVE first_in(_, _)
first_in(names, s) ==
    IF names = <<>> THEN ""
    ELSE IF Contains(names[1], s) THEN names[1]
    ELSE first_in(Tail(names), s)

\* the loop over the lines of the process list: it returns at the first line
\* that holds one of names
RECURSIVE scan_lines(_, _)
scan_lines(lines, names) ==
    IF lines = <<>> THEN ""
    ELSE LET hit == first_in(names, lower(lines[1]))
         IN  IF hit # "" THEN hit ELSE scan_lines(Tail(lines), names)

\* the try block around subprocess.run(['ps', '-e']); "" stands for None
ps_scan(p, names) ==
    IF p.raised THEN "" ELSE scan_lines(split_on(p.stdout, "\n"), names)

\* _detect_window_manager(); "" stands for None
detect_window_manager(e, p) ==
    IF e["HYPRLAND_INSTANCE_SIGNATURE"] # "" THEN "hyprland"
    ELSE IF e["LABWC_SOCKET"] # "" THEN "labwc"
    ELSE IF e["SWAYSOCK"] # "" THEN "sway"
    ELSE IF e["I3SOCK"] # "" THEN "i3"
    ELSE LET desktop_session == lower(e["DESKTOP_SESSION"])
             xdg_desktop == lower(e["XDG_CURRENT_DESKTOP"])
         IN  IF \E i \in 1..Len(WindowManagers) : WindowManagers[i] = desktop_session
             THEN desktop_session
             ELSE IF first_in(WindowManagers, xdg_desktop) # ""
             THEN first_in(WindowManagers, xdg_desktop)
             ELSE ps_scan(p, ProcessManagers)

\* _detect_compositor(); "" stands for None
detect_compositor(e, p) ==
    IF e["WAYLAND_DISPLAY"] # "" THEN "wayland"
    ELSE IF e["PICOM_CONFIG"] # "" THEN "picom"
    ELSE IF lower(e["XDG_SESSION_TYPE"]) = "wayland" THEN "wayland"
    ELSE ps_scan(p, ProcessCompositors)

\* the part of detect_environment for one key: set only for a truthy value
env_entry(key, value) == IF value # "" THEN <<<<key, value>>>> ELSE <<>>

\* detect_environment(): the fingerprint, its keys in insertion order
detect_environment(e, p) ==
    LET parts == split_on(e["SHELL"], "/")
    IN  env_entry("window_manager", detect_window_manager(e, p))
        \o env_entry("compositor", detect_compositor(e, p))
        \o env_entry("shell", parts[Len(parts)])
        \o env_entry("terminal", e["TERM"])

(***************************** shared initial values ************************)
DefaultConfig ==
    [backup_existing |-> TRUE, create_backup_dir |-> TRUE, dry_run |-> FALSE,
     custom_mappings |-> EmptyMap]

SingleWarning ==
    [warning |-> " can only load one configuration file. Multiple configs will overwrite each other.",
     suggestion |-> "Consider using different config names or environment-specific subdirectories."]

MultipleInfo ==
    [info |-> "EWW supports multiple configuration files and can load them via command line arguments.",
     suggestion |-> "Use --config flag to specify different config files."]

DefaultProgramCompatibility ==
    [single_config_only |->
        ("alacritty" :> [SingleWarning EXCEPT !.warning = "Alacritty" \o @])
        @@ ("kitty" :> [SingleWarning EXCEPT !.warning = "Kitty" \o @]),
     supports_multiple_configs |-> ("eww" :> MultipleInfo)]

NoWarnings == [single_config_warnings |-> <<>>, multiple_config_info |-> <<>>]

\* the sequences without repetition over S, of length at most n
DistinctSeqs(S, n) ==
    {s \in UNION {[1..k -> S] : k \in 0..n} :
        \A i, j \in 1..Len(s) : i # j => s[i] # s[j]}

\* a filesystem holding the directories ds and the files fl (content "x")
MakeFs(ds, fl) == [p \in ds \cup fl |-> IF p \in fl THEN File("x") ELSE Dir]

BaseDirs == {repo_path, home, home_config}

DefaultAutoConfigRules ==
    [include_programs |->
        [terminals |-> {"alacritty", "kitty", "st", "urxvt", "xterm"},
         window_managers |-> {"dwm", "i3", "sway", "hyprland", "labwc"},
         bars_widgets |-> {"eww", "waybar", "polybar", "fabric", "weld"},
         compositors |-> {"picom", "compton", "xcompmgr"},
         editors |-> {"vim", "nvim", "emacs"},
         shells |-> {"zsh", "bash", "fish"},
         other |-> {"tmux", "git", "ssh"}],
     exclude_directories |->
        [system |-> {"systemd", "dconf", "kde.org", "KDE", "pulse", "gtk-3.0", "gtk-4.0"},
         browsers |-> {"chromium", "firefox", "chrome"},
         applications |-> {"rustdesk", "antimicrox", "opendeck", "nemo", "gtklock"}],
     include_keywords |-> <<"wm", "bar", "term", "editor", "shell", "compositor">>,
     ignore_patterns |->
        <<"*.lock", "*.socket", "*.cookie", "*.pid", "*.tmp", "*.log", "*.cache">>,
     confirmation_threshold |-> 10,
     max_configs_per_pull |-> 50]

NoPullArgs ==
    [widget_name |-> "", environment |-> "", specific_programs |-> <<>>,
     output_dir |-> NoPath]

EnvironNames ==
    {"HYPRLAND_INSTANCE_SIGNATURE", "LABWC_SOCKET", "SWAYSOCK", "I3SOCK",
     "DESKTOP_SESSION", "XDG_CURRENT_DESKTOP", "WAYLAND_DISPLAY", "PICOM_CONFIG",
     "XDG_SESSION_TYPE", "SHELL", "TERM"}

\* no variable set
NoEnviron == [name \in EnvironNames |-> ""]

\* a host with an empty environment and an empty process list
HostIdle ==
    /\ os_environ = NoEnviron
    /\ ps = [raised |-> FALSE, stdout |-> ""]

\* no installer operation started
ControlIdle ==
    /\ mode = "widget"
    /\ use_config_fallback = FALSE
    /\ widgets = <<>>
    /\ pending = <<>>
    /\ success = TRUE
    /\ all_success = TRUE
    /\ calls = <<>>
    /\ widget_results = <<>>
    /\ widget_ret = "none"
    /\ all_ret = "none"
    /\ ops = 0

\* nothing started outside the installer
BeyondIdle ==
    /\ auto_config_rules = DefaultAutoConfigRules
    /\ pull_args = NoPullArgs
    /\ env_folder = NoPath
    /\ config_dirs = <<>>
    /\ response = "none"
    /\ pulled = <<>>
    /\ pull_ret = "none"
    /\ fs_before = MakeFs({}, {})
    /\ repo_list_text = <<>>
    /\ last_op = NoOp
    /\ git = NoGit
    /\ command = NoCommand
    /\ exit_status = "none"
    /\ HostIdle

(***************************** SpecSelect **********************************)
(* select_best_config applied to one widget whose variants, enumeration    *)
(* order and fingerprint are drawn from bounded sets.                      *)
EnvTypes == <<"window_manager", "shell", "terminal", "compositor">>

\* the values drawn for each fingerprint key, by position in EnvTypes
EnvValues ==
    <<{"hyprland", "Sway", "gnome shell"},
      {"", "zsh", "fault"},
      {"", "xterm-kitty"},
      {"wayland"}>>

VariantNames == {"hyprland-zsh", "hyprland", "Sway", "gnome"}

SelectWidget == "waybar"

SelectWidgetPath == repo_path \o <<SelectWidget>>

\* the fingerprints with keys among the first MaxEnvKeys of EnvTypes
Environments ==
    {[i \in 1..Len(ks) |-> <<EnvTypes[ks[i]], g[ks[i]]>>] :
        <<ks, g>> \in
            {kg \in (DistinctSeqs(1..MaxEnvKeys, MaxEnvKeys)
                     \X [1..MaxEnvKeys -> UNION {EnvValues[i] : i \in 1..MaxEnvKeys}]) :
                /\ \A i, j \in 1..Len(kg[1]) : i < j => kg[1][i] < kg[1][j]
                /\ \A i \in 1..MaxEnvKeys : kg[2][i] \in EnvValues[i]}}

InitSelect ==
    /\ environment \in Environments
    /\ \E vs \in DistinctSeqs(VariantNames, MaxVariants),
          present, hasDefault \in BOOLEAN :
          /\ ~present => vs = <<>> /\ ~hasDefault
          /\ dirOrder = <<SelectWidget, "hyprland.txt", "default">> \o vs
          /\ fs = IF ~present THEN MakeFs(BaseDirs, {})
                  ELSE MakeFs(
                      BaseDirs \cup {SelectWidgetPath}
                      \cup {SelectWidgetPath \o <<vs[i]>> : i \in 1..Len(vs)}
                      \cup (IF hasDefault
                            THEN {SelectWidgetPath \o <<"default">>} ELSE {}),
                      {SelectWidgetPath \o <<"hyprland.txt">>})
    /\ config = DefaultConfig
    /\ program_compatibility = DefaultProgramCompatibility
    /\ pc = "select"
    /\ widget_arg = SelectWidget
    /\ best_config = NoPath
    /\ config_files = <<>>
    /\ warnings = NoWarnings
    /\ ControlIdle
    /\ BeyondIdle

SelectBestConfig ==
    /\ UNCHANGED beyond
    /\ pc = "select"
    /\ best_config' = select_best_config(fs, widget_arg, environment)
    /\ pc' = "selected"
    /\ UNCHANGED <<fs, dirOrder, environment, config, program_compatibility,
                   widget_arg, config_files, warnings, control>>

NextSelect == SelectBestConfig

SpecSelect == InitSelect /\ [][NextSelect]_vars

(***************************** SpecCheck ***********************************)
(* get_config_files applied to one variant of a widget, and then           *)
(* check_program_compatibility applied to its result; the widget's files,  *)
(* the custom mappings and the rule tables are drawn from bounded sets.    *)
CheckWidget == "desk"

CheckWidgetPath == repo_path \o <<CheckWidget>>

CheckVariants == {"hyprland", "default"}

RelPaths ==
    {<<"config.toml">>, <<".zshrc">>, <<"kitty.conf">>,
     <<"alacritty", "alacritty.yml">>, <<"alacritty", "themes", "alacritty.yml">>,
     <<"eww", "eww.yuck">>}

CheckDirOrder ==
    <<CheckWidget, "hyprland", "default", "config.toml", ".zshrc", "kitty.conf",
      "alacritty", "alacritty.yml", "themes", "eww", "eww.yuck">>

\* the proper, non-empty prefixes of a relative path: its directories
DirsOf(rel) == {SubSeq(rel, 1, k) : k \in 1..(Len(rel) - 1)}

CustomMappings ==
    {EmptyMap,
     (CheckWidget :> ("alacritty" :> "kitty")) @@ ("other" :> ("eww" :> "alacritty"))}

\* a user's rule table naming eww in both sections
OverlappingProgramCompatibility ==
    [single_config_only |->
        DefaultProgramCompatibility.single_config_only
        @@ ("eww" :> [SingleWarning EXCEPT !.warning = "EWW" \o @]),
     supports_multiple_configs |-> ("eww" :> MultipleInfo)]

InitCheck ==
    /\ \E F \in SUBSET (CheckVariants \X RelPaths), V \in SUBSET CheckVariants :
          /\ Cardinality(F) <= MaxFiles
          /\ V # {}
          /\ \A vr \in F : vr[1] \in V
          /\ fs = MakeFs(
                BaseDirs \cup {CheckWidgetPath}
                \cup {CheckWidgetPath \o <<v>> : v \in V}
                \cup UNION {{CheckWidgetPath \o <<vr[1]>> \o d : d \in DirsOf(vr[2])} :
                            vr \in F},
                {CheckWidgetPath \o <<vr[1]>> \o vr[2] : vr \in F})
          /\ \E v \in V : best_config = CheckWidgetPath \o <<v>>
    /\ dirOrder = CheckDirOrder
    /\ environment = <<>>
    /\ \E cm \in CustomMappings : config = [DefaultConfig EXCEPT !.custom_mappings = cm]
    /\ program_compatibility \in
           {DefaultProgramCompatibility, OverlappingProgramCompatibility}
    /\ widget_arg \in {"", CheckWidget}
    /\ pc = "classify"
    /\ config_files = <<>>
    /\ warnings = NoWarnings
    /\ ControlIdle
    /\ BeyondIdle

GetConfigFiles ==
    /\ UNCHANGED beyond
    /\ pc = "classify"
    /\ config_files' = get_config_files(fs, config, best_config)
    /\ pc' = "classified"
    /\ UNCHANGED <<fs, dirOrder, environment, config, program_compatibility,
                   widget_arg, best_config, warnings, control>>

CheckProgramCompatibility ==
    /\ UNCHANGED beyond
    /\ pc = "classified"
    /\ warnings' = check_program_compatibility(fs, config, program_compatibility,
                                               config_files, widget_arg)
    /\ pc' = "checked"
    /\ UNCHANGED <<fs, dirOrder, environment, config, program_compatibility,
                   widget_arg, best_config, config_files, control>>

NextCheck == GetConfigFiles \/ CheckProgramCompatibility

SpecCheck == InitCheck /\ [][NextCheck]_vars

(***************************** Spec ****************************************)
(* The installer: install_widget and install_all_widgets, with their       *)
(* install_config calls as steps, run up to MaxOps times over a repository *)
(* and a home directory drawn from bounded sets.                           *)
InstallWidgets == {"term", "bar"}

\* the files a repository may hold: <<widget, variant, relative path>>
RepoFiles ==
    {<<"term", "default", <<"kitty.conf">>>>,
     <<"term", "default", <<"kitty", "kitty.conf">>>>,
     <<"term", "hyprland", <<"kitty.conf">>>>,
     <<"bar", "default", <<"waybar", "config">>>>}

RepoFilePath(wvr) == repo_path \o <<wvr[1], wvr[2]>> \o wvr[3]

InstallDirOrder ==
    <<"term", "bar", ".git", "hyprland", "default", "kitty.conf", "kitty",
      "waybar", "config">>

\* what the home directory holds before the first operation
HomeStates ==
    {\* nothing installed yet
     MakeFs({}, {}),
     \* a kitty.conf installed earlier
     Put(MakeFs({home_config \o <<"kitty">>}, {}),
         home_config \o <<"kitty", "kitty.conf">>, File("old")),
     \* a kitty.conf installed earlier and backed up once
     Put(Put(MakeFs({home_config \o <<"kitty">>, backup_dir}, {}),
             home_config \o <<"kitty", "kitty.conf">>, File("old")),
         backup_dir \o <<"kitty.conf">>, File("older")),
     \* ~/.config/kitty is a regular file
     Put(MakeFs({}, {}), home_config \o <<"kitty">>, File("old")),
     \* ~/.config_backup is a regular file
     Put(Put(MakeFs({home_config \o <<"kitty">>}, {}),
             home_config \o <<"kitty", "kitty.conf">>, File("old")),
         backup_dir, File("old"))}

InstallConfigs ==
    {DefaultConfig,
     [DefaultConfig EXCEPT !.dry_run = TRUE],
     [DefaultConfig EXCEPT !.backup_existing = FALSE],
     [DefaultConfig EXCEPT !.create_backup_dir = FALSE],
     [DefaultConfig EXCEPT !.dry_run = TRUE, !.backup_existing = FALSE]}

\* the outcomes the OS may give the two copies of one install_config call
IoOutcomes == [backup_ok : BOOLEAN, copy_ok : BOOLEAN]

\* the arguments main gives install_widget: <<widget, use_config_fallback>>
InstallWidgetArgs ==
    {<<"term", FALSE>>, <<"bar", FALSE>>, <<"none", FALSE>>, <<"none", TRUE>>}

BoolStr(b) == IF b THEN "True" ELSE "False"

Init ==
    /\ \E W \in {{}, InstallWidgets}, F \in SUBSET RepoFiles, h \in HomeStates :
          /\ Cardinality(F) <= MaxFiles
          /\ \A wvr \in F : wvr[1] \in W
          /\ fs = [p \in {RepoFilePath(wvr) : wvr \in F} |-> File(str_path(p))]
                  @@ h
                  @@ MakeFs(BaseDirs \cup {repo_path \o <<".git">>}
                            \cup {repo_path \o <<w>> : w \in W}
                            \cup UNION {{repo_path \o <<wvr[1]>> \o d :
                                            d \in DirsOf(<<wvr[2]>> \o wvr[3])} :
                                        wvr \in F},
                            {})
    /\ dirOrder = InstallDirOrder
    /\ environment = <<<<"window_manager", "hyprland">>>>
    /\ config \in InstallConfigs
    /\ program_compatibility = DefaultProgramCompatibility
    /\ pc = "idle"
    /\ widget_arg = ""
    /\ best_config = NoPath
    /\ config_files = <<>>
    /\ warnings = NoWarnings
    /\ ControlIdle
    /\ BeyondIdle

\* main starts install_widget
InstallWidgetCall ==
    /\ UNCHANGED beyond
    /\ pc = "idle"
    /\ ops < MaxOps
    /\ \E args \in InstallWidgetArgs :
          /\ widget_arg' = args[1]
          /\ use_config_fallback' = args[2]
    /\ mode' = "widget"
    /\ pc' = "install_widget"
    /\ ops' = ops + 1
    /\ widget_ret' = "none"
    /\ all_ret' = "none"
    /\ widget_results' = <<>>
    /\ UNCHANGED <<fs, dirOrder, environment, config, program_compatibility,
                   best_config, config_files, warnings, widgets, pending,
                   success, all_success, calls>>

\* install_all_widgets up to its loop
InstallAllWidgets ==
    /\ UNCHANGED beyond
    /\ pc = "idle"
    /\ ops < MaxOps
    /\ LET dirs == SelectSeq(iterdir(fs, repo_path),
                             LAMBDA d : is_dir(fs, d) /\ ~startswith(Name(d), "."))
       IN  /\ widgets' = [i \in 1..Len(dirs) |-> Name(dirs[i])]
           /\ IF dirs = <<>>
              THEN pc' = "idle" /\ all_ret' = "False"
              ELSE pc' = "install_all" /\ all_ret' = "none"
    /\ mode' = "all"
    /\ ops' = ops + 1
    /\ all_success' = TRUE
    /\ widget_ret' = "none"
    /\ widget_results' = <<>>
    /\ UNCHANGED <<fs, dirOrder, environment, config, program_compatibility,
                   widget_arg, best_config, config_files, warnings,
                   use_config_fallback, pending, success, calls>>

\* the loop of install_all_widgets calls install_widget for the next widget
InstallAllNext ==
    /\ UNCHANGED beyond
    /\ pc = "install_all"
    /\ widgets # <<>>
    /\ widget_arg' = Head(widgets)
    /\ use_config_fallback' = FALSE
    /\ widgets' = Tail(widgets)
    /\ widget_ret' = "none"
    /\ pc' = "install_widget"
    /\ UNCHANGED <<fs, dirOrder, environment, config, program_compatibility,
                   best_config, config_files, warnings, mode, pending, success,
                   all_success, calls, widget_results, all_ret, ops>>

\* install_all_widgets returns
InstallAllReturn ==
    /\ UNCHANGED beyond
    /\ pc = "install_all"
    /\ widgets = <<>>
    /\ all_ret' = BoolStr(all_success)
    /\ pc' = "idle"
    /\ UNCHANGED <<fs, dirOrder, environment, config, program_compatibility,
                   widget_arg, best_config, config_files, warnings, mode,
                   use_config_fallback, widgets, pending, success, all_success,
                   calls, widget_results, widget_ret, ops>>

\* install_widget up to its loop: selection, classification, compatibility
InstallWidgetBegin ==
    /\ UNCHANGED beyond
    /\ pc = "install_widget"
    /\ LET selected == select_best_config(fs, widget_arg, environment)
           config_path == IF selected = NoPath /\ use_config_fallback
                          THEN home_config ELSE selected
           found == IF config_path = NoPath THEN <<>>
                    ELSE get_config_files(fs, config, config_path)
       IN  /\ best_config' = config_path
           /\ config_files' = found
           /\ warnings' = IF found = <<>> THEN NoWarnings
                          ELSE check_program_compatibility(
                                   fs, config, program_compatibility, found, widget_arg)
           /\ pending' = found
           /\ success' = (found # <<>>)
           /\ pc' = IF found = <<>> THEN "install_widget_return" ELSE "install_loop"
    /\ calls' = <<>>
    /\ UNCHANGED <<fs, dirOrder, environment, config, program_compatibility,
                   widget_arg, mode, use_config_fallback, widgets, all_success,
                   widget_results, widget_ret, all_ret, ops>>

\* one turn of the loop of install_widget: install_config on the next pair;
\* an error it raises ends install_widget and its caller
InstallConfig ==
    /\ UNCHANGED beyond
    /\ pc = "install_loop"
    /\ pending # <<>>
    /\ \E io \in IoOutcomes :
          LET source_path == Head(pending)[1]
              target_dir == Head(pending)[2]
              call == install_config(fs, config, source_path, target_dir, io)
          IN  /\ fs' = call.fs
              /\ calls' = Append(calls,
                              [source_path |-> source_path, target_dir |-> target_dir,
                               ret |-> IF call.raised THEN "raised"
                                       ELSE BoolStr(call.ret)])
              /\ IF call.raised
                 THEN /\ pc' = "idle"
                      /\ widget_ret' = "raised"
                      /\ all_ret' = IF mode = "all" THEN "raised" ELSE all_ret
                      /\ UNCHANGED <<pending, success>>
                 ELSE /\ pc' = "install_loop"
                      /\ pending' = Tail(pending)
                      /\ success' = (success /\ call.ret)
                      /\ UNCHANGED <<widget_ret, all_ret>>
    /\ UNCHANGED <<dirOrder, environment, config, program_compatibility,
                   widget_arg, best_config, config_files, warnings, mode,
                   use_config_fallback, widgets, all_success, widget_results, ops>>

\* install_widget returns, to main or to the loop of install_all_widgets
InstallWidgetReturn ==
    /\ UNCHANGED beyond
    /\ \/ pc = "install_loop" /\ pending = <<>>
       \/ pc = "install_widget_return"
    /\ widget_ret' = BoolStr(success)
    /\ IF mode = "all"
       THEN /\ pc' = "install_all"
            /\ all_success' = (all_success /\ success)
            /\ widget_results' = Append(widget_results, <<widget_arg, BoolStr(success)>>)
       ELSE /\ pc' = "idle"
            /\ UNCHANGED <<all_success, widget_results>>
    /\ UNCHANGED <<fs, dirOrder, environment, config, program_compatibility,
                   widget_arg, best_config, config_files, warnings, mode,
                   use_config_fallback, widgets, pending, success, calls,
                   all_ret, ops>>

Next ==
    \/ InstallWidgetCall
    \/ InstallAllWidgets
    \/ InstallAllNext
    \/ InstallAllReturn
    \/ InstallWidgetBegin
    \/ InstallConfig
    \/ InstallWidgetReturn

Spec == Init /\ [][Next]_vars

(***************************** SpecPull ************************************)
(* main running pull_from_config once: the home configuration directory,  *)
(* the repository, the arguments, the rules and the answer at the prompt  *)
(* are drawn from bounded sets.                                           *)
PullWidget == "desk"

\* the program directories ~/.config may hold, each with its files
PullPrograms == {"kitty", "waybar", "systemd", "bartender"}

PullProgramFiles(program) ==
    IF program = "kitty" THEN {"kitty.conf", "kitty.lock"} ELSE {"config"}

PullDirOrder ==
    <<"kitty", "waybar", "systemd", "bartender", "mimeapps.list", "kitty.conf",
      "kitty.lock", "config", PullWidget, "hyprland", "sway", "default">>

\* what the repository holds of the widget before the pull
PullRepoStates ==
    {\* no widget directory
     MakeFs({}, {}),
     \* the widget directory and its environment folders, nothing pulled yet
     MakeFs({repo_path \o <<PullWidget>>, repo_path \o <<PullWidget, "hyprland">>,
             repo_path \o <<PullWidget, "sway">>}, {}),
     \* an earlier pull of kitty
     Put(MakeFs({repo_path \o <<PullWidget>>, repo_path \o <<PullWidget, "hyprland">>,
                 repo_path \o <<PullWidget, "hyprland", "kitty">>}, {}),
         repo_path \o <<PullWidget, "hyprland", "kitty", "kitty.conf">>, File("pulled")),
     \* a regular file where the copy of kitty goes
     MakeFs({repo_path \o <<PullWidget>>, repo_path \o <<PullWidget, "hyprland">>},
            {repo_path \o <<PullWidget, "hyprland", "kitty">>}),
     \* a regular file where the widget directory goes
     MakeFs({}, {repo_path \o <<PullWidget>>})}

\* the arguments main passes on
PullArgs ==
    {[widget_name |-> PullWidget, environment |-> e, specific_programs |-> sp,
      output_dir |-> NoPath] :
        e \in {"", "sway"},
        sp \in {<<>>, <<"kitty", "ghost">>, <<"systemd", "waybar">>}}

\* confirmation_threshold and max_configs_per_pull of the rules file
PullLimits == {<<10, 50>>, <<0, 50>>, <<1, 50>>, <<0, 1>>}

Responses == {"y", "Y", "n", "", "yes"}

CopyOutcomes == {"ok", "refused", "partial"}

InitPull ==
    /\ \E P \in SUBSET PullPrograms, r \in PullRepoStates :
          /\ Cardinality(P) <= MaxFiles
          /\ fs = [p \in UNION {{home_config \o <<program, file>> :
                                    file \in PullProgramFiles(program)} :
                                program \in P} |-> File(str_path(p))]
                  @@ r
                  @@ MakeFs(BaseDirs \cup {home_config \o <<program>> : program \in P},
                            {home_config \o <<"mimeapps.list">>})
    /\ fs_before = fs
    /\ dirOrder = PullDirOrder
    /\ environment = <<<<"window_manager", "hyprland">>>>
    /\ config = DefaultConfig
    /\ program_compatibility = DefaultProgramCompatibility
    /\ pc = "main"
    /\ widget_arg = ""
    /\ best_config = NoPath
    /\ config_files = <<>>
    /\ warnings = NoWarnings
    /\ ControlIdle
    /\ \E limits \in PullLimits :
          auto_config_rules =
              [DefaultAutoConfigRules EXCEPT !.confirmation_threshold = limits[1],
                                             !.max_configs_per_pull = limits[2]]
    /\ pull_args \in PullArgs
    /\ env_folder = NoPath
    /\ config_dirs = <<>>
    /\ response = "none"
    /\ pulled = <<>>
    /\ pull_ret = "none"
    /\ repo_list_text = <<>>
    /\ last_op = NoOp
    /\ git = NoGit
    /\ command = NoCommand
    /\ exit_status = "none"
    /\ HostIdle

PullUnchanged ==
    UNCHANGED <<dirOrder, environment, config, program_compatibility, widget_arg,
                best_config, config_files, warnings, control, auto_config_rules,
                pull_args, fs_before, repo_list_text, last_op, git, command, host>>

\* pull_from_config up to its prompt or its loop
PullFromConfig ==
    /\ pc = "main"
    /\ LET made == pull_make_folders(fs, pull_args, environment)
           found == pull_config_dirs(made.fs, auto_config_rules, pull_args)
       IN  /\ fs' = made.fs
           /\ env_folder' = pull_env_folder(pull_args, environment)
           /\ IF made.raised \/ found = <<>>
                 \/ Len(found) > auto_config_rules.max_configs_per_pull
              THEN /\ pull_ret' = "False"
                   /\ pc' = "pull_done"
                   /\ config_dirs' = <<>>
              ELSE /\ pull_ret' = "none"
                   /\ config_dirs' = found
                   /\ pc' = IF Len(found) > auto_config_rules.confirmation_threshold
                            THEN "pull_confirm" ELSE "pull_loop"
    /\ UNCHANGED <<response, pulled, exit_status>>
    /\ PullUnchanged

\* the answer to `Continue? (y/N)`
PullConfirm ==
    /\ pc = "pull_confirm"
    /\ response' \in Responses
    /\ IF lower(response') # "y"
       THEN pull_ret' = "False" /\ pc' = "pull_done"
       ELSE pull_ret' = "none" /\ pc' = "pull_loop"
    /\ UNCHANGED <<fs, env_folder, config_dirs, pulled, exit_status>>
    /\ PullUnchanged

\* one turn of the loop of pull_from_config
PullCopy ==
    /\ pc = "pull_loop"
    /\ config_dirs # <<>>
    /\ \E io \in CopyOutcomes :
          LET copy == pull_copy(fs, auto_config_rules, env_folder,
                                Head(config_dirs), io)
          IN  /\ fs' = copy.fs
              /\ pulled' = Append(pulled,
                               [program |-> Name(Head(config_dirs)),
                                ret |-> IF copy.raised THEN "raised"
                                        ELSE BoolStr(copy.ret)])
              /\ IF copy.raised
                 THEN pull_ret' = "False" /\ pc' = "pull_done"
                 ELSE pull_ret' = "none" /\ pc' = "pull_loop"
    /\ config_dirs' = Tail(config_dirs)
    /\ UNCHANGED <<env_folder, response, exit_status>>
    /\ PullUnchanged

\* pull_from_config returns after its loop
PullReturn ==
    /\ pc = "pull_loop"
    /\ config_dirs = <<>>
    /\ pull_ret' = "True"
    /\ pc' = "pull_done"
    /\ UNCHANGED <<fs, env_folder, config_dirs, response, pulled, exit_status>>
    /\ PullUnchanged

\* main returns the status of the pull
MainPullExit ==
    /\ pc = "pull_done"
    /\ exit_status' = IF pull_ret = "True" THEN "0" ELSE "1"
    /\ pc' = "exited"
    /\ UNCHANGED <<fs, env_folder, config_dirs, response, pulled, pull_ret>>
    /\ PullUnchanged

NextPull ==
    \/ PullFromConfig
    \/ PullConfirm
    \/ PullCopy
    \/ PullReturn
    \/ MainPullExit

SpecPull == InitPull /\ [][NextPull]_vars

(***************************** SpecRegistry ********************************)
ThemeLine == "theme|https://github.com/u/theme.git|A theme|hyprland,eww"

\* the registry file at start: missing or empty, the header alone, one entry
RegistryTexts == {<<>>, RepoListHeader, RepoListHeader \o <<ThemeLine>>}

\* the arguments of the add_repo calls
AddArgs ==
    { [url |-> "https://github.com/u/theme.git", description |-> "A theme",
       tags |-> <<"hyprland", "eww">>, name |-> "theme", fetch_metadata |-> FALSE],
      [url |-> "https://github.com/u/bar.git", description |-> "",
       tags |-> <<>>, name |-> "", fetch_metadata |-> FALSE],
      [url |-> "https://gitlab.com/v/other.git", description |-> "Other",
       tags |-> <<"eww">>, name |-> "theme ", fetch_metadata |-> FALSE],
      [url |-> "/srv/dots/", description |-> "",
       tags |-> <<"sway">>, name |-> "", fetch_metadata |-> TRUE],
      [url |-> "https://example.org/", description |-> "",
       tags |-> <<>>, name |-> "", fetch_metadata |-> TRUE],
      [url |-> "https://github.com/u/theme.git", description |-> "Again",
       tags |-> <<"kde">>, name |-> "theme2", fetch_metadata |-> FALSE] }

\* what the metadata fetch gives: nothing, or a description and tags
Metadata ==
    { [description |-> "", tags |-> <<>>],
      [description |-> "Fetched", tags |-> <<"kde">>] }

RemoveNames == {"theme", "bar", "ghost"}

RegistryUnchanged ==
    UNCHANGED <<fs, dirOrder, environment, config, program_compatibility, pc,
                widget_arg, best_config, config_files, warnings, control,
                pull_vars, git, command, exit_status, host>>

InitRegistry ==
    /\ fs = MakeFs(BaseDirs, {})
    /\ dirOrder = <<>>
    /\ environment = <<<<"window_manager", "hyprland">>>>
    /\ config = DefaultConfig
    /\ program_compatibility = DefaultProgramCompatibility
    /\ pc = "registry"
    /\ widget_arg = ""
    /\ best_config = NoPath
    /\ config_files = <<>>
    /\ warnings = NoWarnings
    /\ ControlIdle
    /\ auto_config_rules = DefaultAutoConfigRules
    /\ pull_args = NoPullArgs
    /\ env_folder = NoPath
    /\ config_dirs = <<>>
    /\ response = "none"
    /\ pulled = <<>>
    /\ pull_ret = "none"
    /\ fs_before = MakeFs({}, {})
    /\ repo_list_text \in RegistryTexts
    /\ last_op = NoOp
    /\ git = NoGit
    /\ command = NoCommand
    /\ exit_status = "none"
    /\ HostIdle

AddRepo ==
    /\ pc = "registry"
    /\ last_op.count < MaxRegistryOps
    /\ \E a \in AddArgs, metadata \in Metadata, io_ok \in BOOLEAN :
          LET r == add_repo(repo_list_text, a.url, a.description, a.tags, a.name,
                            a.fetch_metadata, metadata, io_ok)
          IN  /\ repo_list_text' = r.text
              /\ last_op' = [kind |-> "add", url |-> a.url,
                             description |-> a.description, tags |-> a.tags,
                             name |-> a.name, fetch_metadata |-> a.fetch_metadata,
                             ret |-> r.ret, before |-> repo_list_text,
                             count |-> last_op.count + 1]
    /\ RegistryUnchanged

RemoveRepo ==
    /\ pc = "registry"
    /\ last_op.count < MaxRegistryOps
    /\ \E name \in RemoveNames, io_ok \in BOOLEAN :
          LET r == remove_repo(repo_list_text, name, io_ok)
          IN  /\ repo_list_text' = r.text
              /\ last_op' = [kind |-> "remove", url |-> "", description |-> "",
                             tags |-> <<>>, name |-> name, fetch_metadata |-> FALSE,
                             ret |-> r.ret, before |-> repo_list_text,
                             count |-> last_op.count + 1]
    /\ RegistryUnchanged

NextRegistry == AddRepo \/ RemoveRepo

SpecRegistry == InitRegistry /\ [][NextRegistry]_vars

(***************************** SpecGit *************************************)
(* install_from_git_repo, step by step: the lookup in the registry, the    *)
(* clone or pull, the structural check, the install.                       *)
GitRepoLine == "dots|https://github.com/u/dots.git|Dots|sway"

GitDirOrder ==
    <<"git_repos", "dots", ".git", "bar", "default", "waybar", "config", "README">>

\* the arguments main gives install_from_git_repo
GitArgs ==
    [repo_name : {"dots", "ghost"}, widget_name : {"", "bar", "clock"},
     force_update : BOOLEAN]

\* what the git process may do
GitOutcomes ==
    { [ok |-> TRUE, tree |-> "complete"], [ok |-> TRUE, tree |-> "no_widgets"],
      [ok |-> FALSE, tree |-> "untouched"], [ok |-> FALSE, tree |-> "partial"] }

\* the clones present at start: none, or a complete one made earlier
GitCloneStates ==
    { MakeFs({}, {}),
      GitTree(local_path("dots"), "complete") @@ MakeFs({git_repos_dir}, {}) }

\* the home directory at start: nothing, a waybar config installed earlier,
\* or a regular file where the directory of waybar would go
GitHomeStates ==
    { MakeFs({}, {}),
      Put(MakeFs({home_config \o <<"waybar">>}, {}),
          home_config \o <<"waybar", "config">>, File("old")),
      MakeFs({}, {home_config \o <<"waybar">>}) }

GitUnchanged ==
    UNCHANGED <<dirOrder, environment, config, program_compatibility, widget_arg,
                best_config, config_files, warnings, mode, use_config_fallback,
                widgets, pending, success, all_success, widget_results,
                widget_ret, all_ret, ops, pull_vars, repo_list_text, last_op, host>>

\* the record of an --install-from-git command
GitCommand(repo_name, found) ==
    [command EXCEPT !.kind = "install_from_git", !.arg = repo_name,
                    !.not_found = ~found, !.ret = "none"]

InitGit ==
    /\ \E c \in GitCloneStates, h \in GitHomeStates :
          fs = c @@ h @@ MakeFs(BaseDirs, {})
    /\ dirOrder = GitDirOrder
    /\ environment = <<<<"window_manager", "hyprland">>>>
    /\ config \in {DefaultConfig, [DefaultConfig EXCEPT !.dry_run = TRUE]}
    /\ program_compatibility = DefaultProgramCompatibility
    /\ pc = "git_idle"
    /\ widget_arg = ""
    /\ best_config = NoPath
    /\ config_files = <<>>
    /\ warnings = NoWarnings
    /\ ControlIdle
    /\ auto_config_rules = DefaultAutoConfigRules
    /\ pull_args = NoPullArgs
    /\ env_folder = NoPath
    /\ config_dirs = <<>>
    /\ response = "none"
    /\ pulled = <<>>
    /\ pull_ret = "none"
    /\ fs_before = MakeFs({}, {})
    /\ repo_list_text = RepoListHeader \o <<GitRepoLine>>
    /\ last_op = NoOp
    /\ git = NoGit
    /\ command = NoCommand
    /\ exit_status = "none"
    /\ HostIdle

\* main's `return 0 if success else 1`; an uncaught error ends the process
\* with status 1 as well
ExitOf(ret) == IF ret = "True" THEN "0" ELSE "1"

\* main calls install_from_git_repo, which looks the repository up
InstallFromGitRepo ==
    /\ pc = "git_idle"
    /\ git.count < MaxGitOps
    /\ \E args \in GitArgs :
          LET found == find_repo(repo_list_text, args.repo_name) # <<>>
          IN  /\ git' = [git EXCEPT !.repo_name = args.repo_name,
                                    !.widget_name = args.widget_name,
                                    !.force_update = args.force_update,
                                    !.steps = <<"lookup">>,
                                    !.ret = IF found THEN "none" ELSE "False",
                                    !.count = @ + 1,
                                    !.root = repo_path]
              /\ command' = GitCommand(args.repo_name, found)
              /\ pc' = IF found THEN "git_clone" ELSE "git_idle"
              /\ exit_status' = IF found THEN "none" ELSE "1"
    /\ calls' = <<>>
    /\ UNCHANGED fs
    /\ GitUnchanged

\* clone_repo
CloneRepo ==
    /\ pc = "git_clone"
    /\ \E outcome \in GitOutcomes :
          LET repo_info == find_repo(repo_list_text, git.repo_name)[1]
              ran == ~exists(fs, local_path(git.repo_name)) \/ git.force_update
              r == clone_repo(fs, repo_info, git.force_update, outcome)
          IN  /\ fs' = r.fs
              /\ git' = [git EXCEPT
                            !.steps = Append(@, "clone"),
                            !.ret = IF r.raised THEN "raised"
                                    ELSE IF r.ret THEN "none" ELSE "False",
                            !.left_by_failure =
                                IF ran /\ outcome.ok THEN @ \ {git.repo_name}
                                ELSE IF ran /\ outcome.tree = "partial"
                                THEN @ \cup {git.repo_name}
                                ELSE @]
              /\ pc' = IF ~r.raised /\ r.ret THEN "git_check" ELSE "git_idle"
              /\ exit_status' = IF ~r.raised /\ r.ret THEN "none" ELSE "1"
    /\ UNCHANGED <<calls, command>>
    /\ GitUnchanged

\* check_repo_compatibility and the tests of its result
CheckRepoCompatibility ==
    /\ pc = "git_check"
    /\ LET compatibility == check_repo_compatibility(fs, local_path(git.repo_name))
           passed == /\ compatibility.is_compatible
                     /\ \/ git.widget_name = ""
                        \/ \E i \in 1..Len(compatibility.widgets) :
                              compatibility.widgets[i] = git.widget_name
       IN  /\ git' = [git EXCEPT !.steps = Append(@, "check"),
                                 !.ret = IF passed THEN "none" ELSE "False"]
           /\ pc' = IF passed THEN "git_install" ELSE "git_idle"
           /\ exit_status' = IF passed THEN "none" ELSE "1"
    /\ UNCHANGED <<fs, calls, command>>
    /\ GitUnchanged

\* install_widget or install_all_widgets on the clone, and the return
GitInstall ==
    /\ pc = "git_install"
    /\ \E io \in IoOutcomes, seen \in {with_repo_path(fs, local_path(git.repo_name))} :
        \E r \in {install_from_clone(seen, config, git.widget_name, environment, io)} :
          LET ret == IF r.raised THEN "raised" ELSE BoolStr(r.ret)
          IN  /\ fs' = restore_repo_path(fs, r.fs)
              /\ calls' = r.calls
              /\ git' = [git EXCEPT
                            !.steps = Append(@, "install"),
                            !.ret = ret,
                            \* an error leaves before `self.repo_path = original_repo_path`
                            !.root = IF r.raised THEN local_path(git.repo_name) ELSE @]
              /\ exit_status' = ExitOf(ret)
    /\ pc' = "git_idle"
    /\ UNCHANGED command
    /\ GitUnchanged

NextGit == InstallFromGitRepo \/ CloneRepo \/ CheckRepoCompatibility \/ GitInstall

SpecGit == InitGit /\ [][NextGit]_vars

(***************************** SpecMain ************************************)
(* The commands of main that look a widget or a repository up, and the     *)
(* exit status each ends with.                                             *)
MainWidgets == {"bar", "clock"}

MainRepoNames == {"dots", "ghost"}

\* the paths given to --check-compatibility
MainPaths == {"/repo/git_repos/dots", "/nope"}

\* the widget the repository at repo_path may hold
MainRepoStates ==
    { MakeFs({}, {}),
      Put(MakeTree(repo_path \o <<"bar">>, {<<"default">>, <<"default", "waybar">>}),
          repo_path \o <<"bar", "default", "waybar", "config">>, File("local")) }

MainUnchanged ==
    UNCHANGED <<dirOrder, environment, config, program_compatibility, pc, widget_arg,
                best_config, config_files, warnings, mode, use_config_fallback,
                widgets, pending, success, all_success, widget_results,
                widget_ret, all_ret, ops, pull_vars, last_op, git, host>>

InitMain ==
    /\ \E c \in GitCloneStates, r \in MainRepoStates :
          fs = c @@ r @@ MakeFs(BaseDirs, {})
    /\ dirOrder = GitDirOrder
    /\ environment = <<<<"window_manager", "hyprland">>>>
    /\ config = DefaultConfig
    /\ program_compatibility = DefaultProgramCompatibility
    /\ pc = "git_idle"
    /\ widget_arg = ""
    /\ best_config = NoPath
    /\ config_files = <<>>
    /\ warnings = NoWarnings
    /\ ControlIdle
    /\ auto_config_rules = DefaultAutoConfigRules
    /\ pull_args = NoPullArgs
    /\ env_folder = NoPath
    /\ config_dirs = <<>>
    /\ response = "none"
    /\ pulled = <<>>
    /\ pull_ret = "none"
    /\ fs_before = MakeFs({}, {})
    /\ repo_list_text = RepoListHeader \o <<GitRepoLine>>
    /\ last_op = NoOp
    /\ git = NoGit
    /\ command = NoCommand
    /\ exit_status = "none"
    /\ HostIdle

\* the number of commands run so far
Started == command.count + git.count

\* the record of a command that has ended
Command(kind, arg, not_found, ret) ==
    [kind |-> kind, arg |-> arg, not_found |-> not_found, ret |-> ret,
     count |-> command.count + 1]

\* --info WIDGET
MainInfo ==
    /\ pc = "git_idle"
    /\ Started < MaxCommands
    /\ \E w \in MainWidgets :
          command' = Command("info", w, find_widget_configs(fs, w) = <<>>, "None")
    /\ exit_status' = "0"
    /\ UNCHANGED <<fs, calls, repo_list_text>>
    /\ MainUnchanged

\* --remove-repo NAME
MainRemoveRepo ==
    /\ pc = "git_idle"
    /\ Started < MaxCommands
    /\ \E name \in MainRepoNames, io_ok \in BOOLEAN :
          LET r == remove_repo(repo_list_text, name, io_ok)
          IN  /\ repo_list_text' = r.text
              /\ command' = Command("remove_repo", name,
                                    find_repo(repo_list_text, name) = <<>>,
                                    BoolStr(r.ret))
              /\ exit_status' = ExitOf(BoolStr(r.ret))
    /\ UNCHANGED <<fs, calls>>
    /\ MainUnchanged

\* --check-compatibility PATH
MainCheckCompatibility ==
    /\ pc = "git_idle"
    /\ Started < MaxCommands
    /\ \E path \in MainPaths :
          LET compatibility == check_repo_compatibility(fs, Path(path))
          IN  command' = Command("check_compatibility", path, ~exists(fs, Path(path)),
                                 BoolStr(compatibility.is_compatible))
    /\ exit_status' = "0"
    /\ UNCHANGED <<fs, calls, repo_list_text>>
    /\ MainUnchanged

\* WIDGET [--use-config-fallback]: the regular installation of one widget
MainInstallWidget ==
    /\ pc = "git_idle"
    /\ Started < MaxCommands
    /\ \E w \in MainWidgets, use_fallback \in BOOLEAN, io \in IoOutcomes :
        \E r \in {install_widget(fs, config, w, environment, use_fallback, io)} :
          LET ret == IF r.raised THEN "raised" ELSE BoolStr(r.ret)
          IN  /\ fs' = r.fs
              /\ calls' = r.calls
              /\ command' = Command("install_widget", w,
                                    select_best_config(fs, w, environment) = NoPath, ret)
              /\ exit_status' = ExitOf(ret)
    /\ UNCHANGED repo_list_text
    /\ MainUnchanged

\* --install-from-git NAME [--git-widget WIDGET] [--force-update]
MainInstallFromGit ==
    /\ Started < MaxCommands
    /\ InstallFromGitRepo

NextMain ==
    \/ MainInfo
    \/ MainRemoveRepo
    \/ MainCheckCompatibility
    \/ MainInstallWidget
    \/ MainInstallFromGit
    \/ CloneRepo
    \/ CheckRepoCompatibility
    \/ GitInstall

SpecMain == InitMain /\ [][NextMain]_vars

(***************************** SpecDetect ***********************************)
(* detect_environment run once on a host whose environment variables and   *)
(* process list are drawn from bounded sets.                               *)
MaxEnvVars == 2
MaxProcesses == 2

\* the values drawn for each variable
EnvironValues ==
    [name \in EnvironNames |->
        CASE name = "HYPRLAND_INSTANCE_SIGNATURE" -> {"a1b2_1700"}
          [] name = "LABWC_SOCKET" -> {"/run/labwc"}
          [] name = "SWAYSOCK" -> {"/run/sway.sock"}
          [] name = "I3SOCK" -> {"/run/i3.sock"}
          [] name = "DESKTOP_SESSION" -> {"Sway", "gnome", "openbox"}
          [] name = "XDG_CURRENT_DESKTOP" -> {"sway:wlroots", "Hyprland", "GNOME"}
          [] name = "WAYLAND_DISPLAY" -> {"wayland-1"}
          [] name = "PICOM_CONFIG" -> {"/etc/picom.conf"}
          [] name = "XDG_SESSION_TYPE" -> {"Wayland", "x11"}
          [] name = "SHELL" -> {"/bin/zsh", "/usr/bin/", "fish"}
          [] name = "TERM" -> {"xterm-kitty", "Eterm"}]

\* the environments with at most MaxEnvVars variables set
Environs ==
    UNION {{[n \in EnvironNames |-> IF n \in S THEN g[n] ELSE ""] :
               g \in {h \in [S -> UNION {EnvironValues[n] : n \in S}] :
                         \A n \in S : h[n] \in EnvironValues[n]}} :
           S \in {T \in SUBSET EnvironNames : Cardinality(T) <= MaxEnvVars}}

\* lines of `ps -e`
ProcessLines ==
    {"812 ? 00:00:02 sway", "640 ? 00:00:07 Hyprland", "901 ? 00:00:00 picom",
     "977 ? 00:00:00 i3bar", "300 ? 00:00:00 bash"}

PsHeader == "PID TTY TIME CMD"

\* what `ps -e` prints for the processes of lines
PsStdout(lines) == join(<<PsHeader>> \o lines \o <<"">>, "\n")

\* `ps` is missing, or prints up to MaxProcesses processes in some order
PsOutcomes ==
    {[raised |-> TRUE, stdout |-> ""]}
    \cup {[raised |-> FALSE, stdout |-> PsStdout(lines)] :
             lines \in UNION {[1..n -> ProcessLines] : n \in 0..MaxProcesses}}

InitDetect ==
    /\ fs = MakeFs(BaseDirs, {})
    /\ dirOrder = <<>>
    /\ environment = <<>>
    /\ config = DefaultConfig
    /\ program_compatibility = DefaultProgramCompatibility
    /\ pc = "detect"
    /\ widget_arg = ""
    /\ best_config = NoPath
    /\ config_files = <<>>
    /\ warnings = NoWarnings
    /\ ControlIdle
    /\ auto_config_rules = DefaultAutoConfigRules
    /\ pull_args = NoPullArgs
    /\ env_folder = NoPath
    /\ config_dirs = <<>>
    /\ response = "none"
    /\ pulled = <<>>
    /\ pull_ret = "none"
    /\ fs_before = MakeFs({}, {})
    /\ repo_list_text = <<>>
    /\ last_op = NoOp
    /\ git = NoGit
    /\ command = NoCommand
    /\ exit_status = "none"
    /\ os_environ \in Environs
    /\ ps \in PsOutcomes

\* manager.detect_environment(), as main calls it
DetectEnvironment ==
    /\ pc = "detect"
    /\ environment' = detect_environment(os_environ, ps)
    /\ pc' = "detected"
    /\ UNCHANGED <<fs, dirOrder, config, program_compatibility, widget_arg,
                   best_config, config_files, warnings, control, pull_vars,
                   repo_list_text, last_op, git, command, exit_status, host>>

NextDetect == DetectEnvironment

SpecDetect == InitDetect /\ [][NextDetect]_vars

(***************************** claims on detect_environment *****************)
\* the value the fingerprint holds for key, "" when the key is absent
FingerprintValue(key) ==
    IF \E i \in 1..Len(environment) : environment[i][1] = key
    THEN environment[CHOOSE i \in 1..Len(environment) : environment[i][1] = key][2]
    ELSE ""

\* the lines of the process list, none when `ps` could not be run
PsLines == IF ps.raised THEN <<>> ELSE split_on(ps.stdout, "\n")

\* the managers that match some line of the process list
LineManagers ==
    {i \in 1..Len(ProcessManagers) :
        \E k \in 1..Len(PsLines) : Contains(ProcessManagers[i], lower(PsLines[k]))}

\* the allow-listed names inside the current-desktop variable
DesktopManagers ==
    {i \in 1..Len(WindowManagers) :
        Contains(WindowManagers[i], lower(os_environ["XDG_CURRENT_DESKTOP"]))}

Min(S) == CHOOSE i \in S : \A j \in S : i <= j

\* the source that decides the window manager: 1..4 a signature variable,
\* 5 the session name, 6 the current desktop, 7 the process list
DecidingSource ==
    IF os_environ["HYPRLAND_INSTANCE_SIGNATURE"] # "" THEN 1
    ELSE IF os_environ["LABWC_SOCKET"] # "" THEN 2
    ELSE IF os_environ["SWAYSOCK"] # "" THEN 3
    ELSE IF os_environ["I3SOCK"] # "" THEN 4
    ELSE IF \E i \in 1..Len(WindowManagers) :
                WindowManagers[i] = lower(os_environ["DESKTOP_SESSION"]) THEN 5
    ELSE IF DesktopManagers # {} THEN 6
    ELSE 7

\* C23: the window manager is the result of the first source that yields
\* one (signature variables, session name, current desktop, process list),
\* and from the process list it is the first manager of the priority order
\* hyprland, labwc, sway, i3 that matches some line, in whatever order the
\* lines come.
C23_FirstSourceWins ==
    pc = "detected" =>
        LET wm == FingerprintValue("window_manager")
        IN  CASE DecidingSource \in 1..4 -> wm = WindowManagers[DecidingSource]
              [] DecidingSource = 5 -> wm = lower(os_environ["DESKTOP_SESSION"])
              [] DecidingSource = 6 -> \E i \in DesktopManagers : wm = WindowManagers[i]
              [] OTHER -> wm = IF LineManagers = {} THEN ""
                                ELSE ProcessManagers[Min(LineManagers)]

IsLower(s) == s = lower(s)

\* C24: every value of the fingerprint is a non-empty lower-case string, and
\* a key whose signal is missing is absent.
C24_ValuesLowerCase ==
    pc = "detected" =>
        /\ \A i \in 1..Len(environment) :
              environment[i][2] # "" /\ IsLower(environment[i][2])
        /\ os_environ["TERM"] = "" =>
              \A i \in 1..Len(environment) : environment[i][1] # "terminal"
        /\ os_environ["SHELL"] = "" =>
              \A i \in 1..Len(environment) : environment[i][1] # "shell"

(***************************** claims on select_best_config ****************)
\* the non-default variant directories of the widget, in enumeration order
Variants ==
    SelectSeq(iterdir(fs, repo_path \o <<widget_arg>>),
              LAMBDA p : is_dir(fs, p) /\ Name(p) # "default")

DefaultPath == repo_path \o <<widget_arg, "default">>

ValueOf(i) == environment[i][2]

\* keys whose non-empty value, lower-cased and whole, is inside the name
ExactKeys(name) ==
    {i \in 1..Len(environment) :
        ValueOf(i) # "" /\ Contains(lower(ValueOf(i)), lower(name))}

\* keys whose value has a whitespace-separated token inside the name
TokenKeys(name) ==
    {i \in 1..Len(environment) :
        LET tokens == split(lower(ValueOf(i)))
        IN  \E k \in 1..Len(tokens) : Contains(tokens[k], lower(name))}

SharesCharacter(a, b) ==
    \E i \in 1..Len(a), j \in 1..Len(b) : LowerCh(Ch(a, i)) = LowerCh(Ch(b, j))

\* C1: when some non-default variant scores above zero, the variant returned
\* is the first one, in enumeration order, that has the highest score (so it
\* is never `default`, which is not scored).
C1_FirstHighestScore ==
    pc = "selected" =>
        LET V == Variants
            S == [i \in 1..Len(V) |-> Score(V[i], environment)]
        IN  \A i \in 1..Len(V) :
                (/\ S[i] > 0
                 /\ \A j \in 1..Len(V) : S[j] <= S[i]
                 /\ \A j \in 1..(i - 1) : S[j] < S[i])
                => best_config = V[i]

\* C1 witness: two variants tie at the highest positive score, `default`
\* exists, a fingerprint value is inside the word "default", the first wins.
C1_Witness ==
    /\ pc = "selected"
    /\ Len(Variants) = 2
    /\ Score(Variants[1], environment) > 0
    /\ Score(Variants[1], environment) = Score(Variants[2], environment)
    /\ exists(fs, DefaultPath)
    /\ \E i \in 1..Len(environment) :
           ValueOf(i) # "" /\ Contains(lower(ValueOf(i)), "default")
    /\ best_config = Variants[1]

\* C2: when no non-default variant scores above zero (none exists, or all
\* score zero) the result is `default` if it exists and nothing otherwise.
C2_FallbackToDefault ==
    pc = "selected" =>
        LET V == Variants
        IN  (\A i \in 1..Len(V) : Score(V[i], environment) = 0)
            => best_config =
                   (IF exists(fs, DefaultPath) THEN DefaultPath ELSE NoPath)

\* C2 witness: a widget whose only variant is `default`, a non-empty
\* fingerprint, and `default` returned.
C2_Witness ==
    /\ pc = "selected"
    /\ Variants = <<>>
    /\ exists(fs, DefaultPath)
    /\ environment # <<>>
    /\ best_config = DefaultPath

C3_Case ==
    /\ pc = "selected"
    /\ environment = <<<<"window_manager", "hyprland">>, <<"shell", "zsh">>>>
    /\ {Name(Variants[i]) : i \in 1..Len(Variants)} = {"hyprland-zsh", "hyprland"}
    /\ exists(fs, DefaultPath)

\* C3 as stated: for {window_manager: hyprland, shell: zsh} and the variants
\* hyprland-zsh, hyprland, default the scores are 4 and 2 and hyprland-zsh
\* is selected.
C3_Original ==
    C3_Case =>
        /\ Score(repo_path \o <<widget_arg, "hyprland-zsh">>, environment) = 4
        /\ Score(repo_path \o <<widget_arg, "hyprland">>, environment) = 2
        /\ best_config = repo_path \o <<widget_arg, "hyprland-zsh">>

\* C3 amended: in that case the scores are 6 (2+2 for the whole values plus
\* 1+1 for their tokens) and 3 (2+1), and hyprland-zsh is selected.
C3_Amended ==
    C3_Case =>
        /\ Score(repo_path \o <<widget_arg, "hyprland-zsh">>, environment) = 6
        /\ Score(repo_path \o <<widget_arg, "hyprland">>, environment) = 3
        /\ best_config = repo_path \o <<widget_arg, "hyprland-zsh">>

\* C3 witness: the case of the claim, in both enumeration orders' result.
C3_Witness == C3_Case /\ Name(best_config) = "hyprland-zsh"

\* C4: the score of a non-default variant is 2 per key whose value is inside
\* the name whole plus 1 per key with a token inside the name, both counted
\* for the same key; so a variant named exactly as a fingerprint value scores
\* at least 2 more than a variant no value or token of which is inside it.
C4_ScoreWeights ==
    pc = "selected" =>
        LET V == Variants
            S == [i \in 1..Len(V) |-> Score(V[i], environment)]
            E == [i \in 1..Len(V) |-> ExactKeys(Name(V[i]))]
            T == [i \in 1..Len(V) |-> TokenKeys(Name(V[i]))]
        IN  /\ \A i \in 1..Len(V) :
                   S[i] = 2 * Cardinality(E[i]) + Cardinality(T[i])
            /\ \A i, j \in 1..Len(V) :
                   (/\ \E k \in 1..Len(environment) : ValueOf(k) = Name(V[i])
                    /\ E[j] = {}
                    /\ T[j] = {})
                   => S[i] >= S[j] + 2

\* C4 witness: one variant is named as a mixed-case fingerprint value and
\* earns 2+1 for that one key, the other shares no character with any value.
C4_Witness ==
    /\ pc = "selected"
    /\ Len(Variants) = 2
    /\ Len(environment) = 1
    /\ ValueOf(1) = Name(Variants[1])
    /\ ValueOf(1) # lower(ValueOf(1))
    /\ ~SharesCharacter(ValueOf(1), Name(Variants[2]))
    /\ Score(Variants[1], environment) = 3
    /\ Score(Variants[2], environment) = 0

(***************************** claims on get_config_files *******************)
HomeConfigStr == "/home/.config"

\* the files below directory d
FilesUnder(d) ==
    {p \in DOMAIN fs : is_file(fs, p) /\ Len(p) > Len(d) /\ SubSeq(p, 1, Len(d)) = d}

IsHidden(p) == Ch(Name(p), 1) = "."

\* a file name without its extension (the part after its last dot)
WithoutExtension(name) ==
    IF \E k \in 2..(Len(name) - 1) :
           Ch(name, k) = "." /\ \A j \in (k + 1)..Len(name) : Ch(name, j) # "."
    THEN SubSeq(name, 1,
                (CHOOSE k \in 2..(Len(name) - 1) :
                     Ch(name, k) = "." /\ \A j \in (k + 1)..Len(name) : Ch(name, j) # ".")
                - 1)
    ELSE name

\* the destination program the claims give file p of variant directory v
\* (v is repo/<widget>/<variant>)
ClaimedProgram(v, p) ==
    LET first == p[Len(v) + 1]
        widget == v[Len(v) - 1]
        mapped == /\ widget \in DOMAIN config.custom_mappings
                  /\ first \in DOMAIN config.custom_mappings[widget]
    IN  IF Len(p) = Len(v) + 1 THEN WithoutExtension(Name(p))
        ELSE IF mapped THEN config.custom_mappings[widget][first]
        ELSE first

ClaimedDestination(v, p) == HomeConfigStr \o "/" \o ClaimedProgram(v, p)

PairsFor(p) == {i \in 1..Len(config_files) : config_files[i][1] = p}

Classified == pc \in {"classified", "checked"}

\* C5 as stated: every file of the variant has exactly one pair, with the
\* destination the claim gives.
C5_Original ==
    Classified =>
        \A p \in FilesUnder(best_config) :
            /\ Cardinality(PairsFor(p)) = 1
            /\ \A i \in PairsFor(p) :
                   config_files[i][2] = ClaimedDestination(best_config, p)

\* C5 amended: every file of the variant whose name does not start with "."
\* has exactly one pair, with home_config/<name without extension> for a file
\* at the variant root and home_config/<first segment, or its custom mapping>
\* for a file in a subdirectory; a file whose name starts with "." has none,
\* and every pair is the pair of such a file.
C5_Amended ==
    Classified =>
        /\ \A p \in FilesUnder(best_config) :
               IF IsHidden(p) THEN PairsFor(p) = {}
               ELSE /\ Cardinality(PairsFor(p)) = 1
                    /\ \A i \in PairsFor(p) :
                           config_files[i][2] = ClaimedDestination(best_config, p)
        /\ \A i \in 1..Len(config_files) :
               config_files[i][1] \in FilesUnder(best_config)

\* C5 witness: a file at the variant root and a file in a subdirectory with a
\* custom mapping, both classified.
C5_Witness ==
    /\ Classified
    /\ \E i, j \in 1..Len(config_files) :
           /\ Len(config_files[i][1]) = Len(best_config) + 1
           /\ config_files[i][2] = HomeConfigStr \o "/kitty"
           /\ Name(config_files[i][1]) = "kitty.conf"
           /\ Len(config_files[j][1]) > Len(best_config) + 1
           /\ config_files[j][1][Len(best_config) + 1] = "alacritty"
           /\ config_files[j][2] = HomeConfigStr \o "/kitty"

(***************************** claims on check_program_compatibility ********)
SingleOnly == DOMAIN program_compatibility.single_config_only

SupportsMultiple == DOMAIN program_compatibility.supports_multiple_configs

\* the last segment of a destination directory string
LastSegment(str) ==
    LET slashes == {k \in 1..Len(str) : Ch(str, k) = "/"}
        last == CHOOSE k \in slashes : \A j \in slashes : j <= k
    IN  IF slashes = {} THEN str ELSE SubSeq(str, last + 1, Len(str))

\* the variant directories of widget_name, `default` counted
WidgetVariants ==
    {v \in DOMAIN fs :
        /\ Len(v) = Len(repo_path) + 2
        /\ SubSeq(v, 1, Len(v) - 1) = repo_path \o <<widget_arg>>
        /\ is_dir(fs, v) \/ Name(v) = "default"}

\* the classified files of every variant of the widget, by destination program
AllVariantFiles(program) ==
    {vp \in UNION {{<<v, p>> : p \in FilesUnder(v)} : v \in WidgetVariants} :
        ~IsHidden(vp[2]) /\ ClaimedProgram(vp[1], vp[2]) = program}

\* the passed-in pairs, by destination program
PassedPairs(program) ==
    {i \in 1..Len(config_files) : LastSegment(config_files[i][2]) = program}

\* how many files the code's grouping holds for the program
Received(program) ==
    Len(FilesOf(GroupedPairs(fs, config, config_files, widget_arg), program))

HasWarningFor(program) ==
    \E k \in 1..Len(warnings.single_config_warnings) :
        startswith(warnings.single_config_warnings[k],
                   WarningIcon \o "  " \o upper(program) \o ": ")

HasInfoFor(program) ==
    \E k \in 1..Len(warnings.multiple_config_info) :
        startswith(warnings.multiple_config_info[k],
                   InfoIcon \o "  " \o upper(program) \o ": ")

\* the programs that could be named in a message
Programs ==
    SingleOnly \cup SupportsMultiple
    \cup {ProgramOf(GroupedPairs(fs, config, config_files, widget_arg)[i]) :
            i \in 1..Len(GroupedPairs(fs, config, config_files, widget_arg))}

\* C6 as stated: a program with more than one file gets a warning and no info
\* if registered single_config_only, an info and no warning if registered
\* supports_multiple_configs, nothing if unregistered; with one file, nothing.
C6_Original ==
    pc = "checked" =>
        \A program \in Programs :
            IF Received(program) > 1
            THEN /\ program \in SingleOnly =>
                        HasWarningFor(program) /\ ~HasInfoFor(program)
                 /\ program \in SupportsMultiple =>
                        HasInfoFor(program) /\ ~HasWarningFor(program)
                 /\ program \notin SingleOnly \cup SupportsMultiple =>
                        ~HasWarningFor(program) /\ ~HasInfoFor(program)
            ELSE ~HasWarningFor(program) /\ ~HasInfoFor(program)

\* C6 amended: as C6, the info case being a program registered as
\* supports_multiple_configs and not also as single_config_only (a program
\* registered in both sections gets the warning only).
C6_Amended ==
    pc = "checked" =>
        \A program \in Programs :
            IF Received(program) > 1
            THEN /\ program \in SingleOnly =>
                        HasWarningFor(program) /\ ~HasInfoFor(program)
                 /\ program \in SupportsMultiple \ SingleOnly =>
                        HasInfoFor(program) /\ ~HasWarningFor(program)
                 /\ program \notin SingleOnly \cup SupportsMultiple =>
                        ~HasWarningFor(program) /\ ~HasInfoFor(program)
            ELSE ~HasWarningFor(program) /\ ~HasInfoFor(program)

\* C6 witness: a program registered in both sections receives two files and
\* gets the warning only, beside the rule table where it gets the info only.
C6_Witness ==
    /\ pc = "checked"
    /\ \E program \in SingleOnly \cap SupportsMultiple :
           /\ Received(program) > 1
           /\ HasWarningFor(program)
           /\ ~HasInfoFor(program)

\* C7: with a widget that has more than one variant the files counted for a
\* program are the classified files of all its variants; with no widget or a
\* single variant they are the passed-in pairs.
C7_GroupingAcrossVariants ==
    pc = "checked" =>
        LET across == widget_arg # "" /\ Cardinality(WidgetVariants) > 1
            count(program) ==
                IF across THEN Cardinality(AllVariantFiles(program))
                ELSE Cardinality(PassedPairs(program))
        IN  \A program \in Programs :
                /\ HasWarningFor(program) <=>
                       program \in SingleOnly /\ count(program) > 1
                /\ HasInfoFor(program) <=>
                       program \in SupportsMultiple \ SingleOnly /\ count(program) > 1

\* C7 witness: two variants each hold one file for a single_config_only
\* program, the passed-in pairs hold one of them, and the warning is there.
C7_Witness ==
    /\ pc = "checked"
    /\ widget_arg # ""
    /\ Cardinality(WidgetVariants) = 2
    /\ \E program \in SingleOnly :
           /\ Cardinality(PassedPairs(program)) = 1
           /\ \A v \in WidgetVariants :
                  Cardinality({vp \in AllVariantFiles(program) : vp[1] = v}) = 1
           /\ HasWarningFor(program)

\* the variant directory a file of the widget belongs to
VariantOf(source_path) == source_path[Len(repo_path) + 2]

\* the detail line due for a conflicting file
DetailLine(source_path) ==
    "     - " \o VariantOf(source_path) \o ": " \o Name(source_path)

\* the conflicting files: those of a single_config_only program that holds
\* more than one
ConflictingFiles ==
    SelectSeq(GroupedPairs(fs, config, config_files, widget_arg),
              LAMBDA pair : /\ ProgramOf(pair) \in SingleOnly
                            /\ Received(ProgramOf(pair)) > 1)

\* C22: for each single_config_only conflict the warning list holds exactly
\* one detail line per conflicting file, naming the variant the file belongs
\* to and the file's name, whatever the depth of the file below the variant.
C22_DetailLinePerFile ==
    pc = "checked" =>
        LET lines == warnings.single_config_warnings
            details == SelectSeq(lines, LAMBDA line : startswith(line, "     - "))
        IN  /\ Len(details) = Len(ConflictingFiles)
            /\ \A i \in 1..Len(ConflictingFiles) :
                   Cardinality({k \in 1..Len(details) :
                                   details[k] = DetailLine(ConflictingFiles[i][1])})
                   = Cardinality({j \in 1..Len(ConflictingFiles) :
                                     DetailLine(ConflictingFiles[j][1])
                                     = DetailLine(ConflictingFiles[i][1])})

(***************************** claims on the installer *********************)
\* the destination file of a logged install_config call
TargetOf(call) == PathJoin(Path(call.target_dir), Name(call.source_path))

\* the step is an install_config call (its entry is the last of calls')
IsInstallConfigCall == Len(calls') = Len(calls) + 1

\* the files of the backup directory
Backups(f) == {p \in DOMAIN f : Len(p) = Len(backup_dir) + 1 /\ Parent(p) = backup_dir}

\* C8: with dry-run active every install_config call returns success and no
\* step of install_widget or install_all_widgets changes the filesystem,
\* whatever the backup setting and whatever is at the destination.
C8_DryRunChangesNothing ==
    [][config.dry_run =>
          /\ fs' = fs
          /\ IsInstallConfigCall => calls'[Len(calls')].ret = "True"]_vars

\* C8 witness: a dry-run install_widget has returned success after a call
\* whose destination file already existed, with backups enabled.
C8_Witness ==
    /\ config.dry_run
    /\ config.backup_existing
    /\ widget_ret = "True"
    /\ \E i \in 1..Len(calls) :
           /\ is_file(fs, TargetOf(calls[i]))
           /\ calls[i].ret = "True"
    /\ ~exists(fs, backup_dir)

\* C9 as stated: with backups enabled every install_config call that found a
\* file at its destination added exactly one new backup file and left every
\* existing backup as it was.
C9_Original ==
    [][(/\ IsInstallConfigCall
        /\ config.backup_existing
        /\ is_file(fs, TargetOf(calls'[Len(calls')])))
       => /\ \E b \in Backups(fs') \ Backups(fs) :
                 Backups(fs') = Backups(fs) \cup {b}
          /\ \A b \in Backups(fs) : b \in Backups(fs') /\ fs'[b] = fs[b]]_vars

\* C9 amended: with backups enabled every install_config call that found a
\* file at its destination left every existing backup as it was and added at
\* most one backup file; it added exactly one, holding the file it found,
\* when it was made outside dry-run and returned success.
C9_Amended ==
    [][(/\ IsInstallConfigCall
        /\ config.backup_existing
        /\ is_file(fs, TargetOf(calls'[Len(calls')])))
       => LET call == calls'[Len(calls')]
              added == Backups(fs') \ Backups(fs)
          IN  /\ \A b \in Backups(fs) : b \in Backups(fs') /\ fs'[b] = fs[b]
              /\ Cardinality(added) <= 1
              /\ (~config.dry_run /\ call.ret = "True") =>
                     /\ Cardinality(added) = 1
                     /\ \A b \in added : fs'[b] = fs[TargetOf(call)]]_vars

\* C9 witness: a successful call found kitty.conf at its destination while a
\* backup kitty.conf existed, and the backup directory now holds both the
\* old backup and the new one, kitty.conf.1.
C9_Witness ==
    /\ config.backup_existing
    /\ \E i \in 1..Len(calls) : calls[i].ret = "True"
    /\ is_file(fs, backup_dir \o <<"kitty.conf">>)
    /\ fs[backup_dir \o <<"kitty.conf">>].content = "older"
    /\ is_file(fs, backup_dir \o <<"kitty.conf.1">>)
    /\ fs[backup_dir \o <<"kitty.conf.1">>].content = "old"

\* C10: an install_widget that reached its loop has ended with one
\* install_config call per pair of the selected variant, in order, and with
\* success exactly when every call succeeded; an install_all_widgets that
\* reached its loop has ended with one install_widget call per widget and
\* with success exactly when every one of them succeeded.
C10_AttemptsEveryPair ==
    /\ (widget_ret # "none" /\ config_files # <<>>) =>
           /\ Len(calls) = Len(config_files)
           /\ \A i \in 1..Len(calls) :
                  /\ calls[i].source_path = config_files[i][1]
                  /\ calls[i].target_dir = config_files[i][2]
           /\ widget_ret = "True" <=> \A i \in 1..Len(calls) : calls[i].ret = "True"
    /\ (mode = "all" /\ all_ret # "none" /\ widget_results # <<>>) =>
           /\ [i \in 1..Len(widget_results) |-> widget_results[i][1]]
                  = [i \in 1..Len(SelectSeq(iterdir(fs, repo_path),
                                            LAMBDA d : is_dir(fs, d)
                                                       /\ ~IsHidden(d))) |->
                        Name(SelectSeq(iterdir(fs, repo_path),
                                       LAMBDA d : is_dir(fs, d) /\ ~IsHidden(d))[i])]
           /\ all_ret = "True" <=>
                  \A i \in 1..Len(widget_results) : widget_results[i][2] = "True"

\* C18: install_widget runs the compatibility check and emits its warnings
\* before the first install_config step of the batch, and the check creates,
\* changes or removes nothing on disk: the step that runs the check leaves the
\* filesystem as it was, and at every install_config step the messages due
\* for the batch are already emitted and none is added.
C18_CheckBeforeInstall ==
    [][/\ (pc = "install_widget" /\ pc' # pc) => (fs' = fs /\ calls' = <<>>)
       /\ IsInstallConfigCall =>
              LET across == Cardinality(WidgetVariants) > 1
                  count(program) ==
                      IF across THEN Cardinality(AllVariantFiles(program))
                      ELSE Cardinality(PassedPairs(program))
              IN  /\ warnings' = warnings
                  /\ \A program \in Programs :
                         /\ HasWarningFor(program) <=>
                                program \in SingleOnly /\ count(program) > 1
                         /\ HasInfoFor(program) <=>
                                /\ program \in SupportsMultiple \ SingleOnly
                                /\ count(program) > 1]_vars

\* C18 witness: the first install_config call of a batch has copied its file
\* and the warning about a single-config program is among the emitted ones.
C18_Witness ==
    /\ ~config.dry_run
    /\ Len(calls) = 1
    /\ calls[1].ret = "True"
    /\ \E program \in SingleOnly : HasWarningFor(program)

\* C19: install_config returns a failure value and never raises past its
\* boundary when one of its filesystem steps fails, so install_widget goes on
\* to the remaining pairs: no logged call ended in an error raised, and no
\* install_widget or install_all_widgets was ended by one.
C19_NeverRaises ==
    /\ \A i \in 1..Len(calls) : calls[i].ret \in {"True", "False"}
    /\ widget_ret # "raised"
    /\ all_ret # "raised"

Numbered(name, n) == name \o "." \o str_int(n)

\* the backup named name.n is the first numbered one that was free in f
FirstFreeNumbered(f, b, name, n) ==
    /\ Name(b) = Numbered(name, n)
    /\ ~exists(f, backup_dir \o <<Numbered(name, n)>>)
    /\ \A k \in 1..(n - 1) : exists(f, backup_dir \o <<Numbered(name, k)>>)

Declined == response # "none" /\ lower(response) # "y"

\* C11: once a pull that was declined at the prompt has returned, the
\* filesystem is what it was when pull_from_config was called.
C11_DeclineChangesNothing ==
    (Declined /\ pull_ret # "none") => fs = fs_before

\* C12: a pull that was declined at the prompt returns the success value
\* and main ends with status 0.
C12_DeclineIsSuccess ==
    (Declined /\ pull_ret # "none") =>
        /\ pull_ret = "True"
        /\ exit_status # "none" => exit_status = "0"

\* C13: a batch operation that has returned with one of its units failed has
\* returned failure: pull_from_config over program directories,
\* install_widget over files, install_all_widgets over widgets.
C13_PartialFailureIsFailure ==
    /\ (pull_ret # "none" /\ \E i \in 1..Len(pulled) : pulled[i].ret # "True")
           => pull_ret = "False"
    /\ (widget_ret # "none" /\ \E i \in 1..Len(calls) : calls[i].ret # "True")
           => widget_ret # "True"
    /\ (all_ret # "none"
        /\ \E i \in 1..Len(widget_results) : widget_results[i][2] # "True")
           => all_ret # "True"

(***************************** claims about the registry ********************)
\* the name add_repo files the entry under
AddedName == IF last_op.name = "" THEN extract_repo_name_from_url(last_op.url)
             ELSE last_op.name

Loaded == load_repo_list(repo_list_text)

\* C14: after a successful add_repo made without a metadata fetch,
\* load_repo_list returns an entry whose name, URL, description and tags are
\* the ones that were added, an empty description and an empty tag list included.
C14_RoundTrip ==
    (last_op.kind = "add" /\ last_op.ret /\ ~last_op.fetch_metadata) =>
        \E i \in 1..Len(Loaded) :
            /\ Loaded[i].name = AddedName
            /\ Loaded[i].url = last_op.url
            /\ Loaded[i].description = last_op.description
            /\ Loaded[i].tags = last_op.tags

\* C15: from a registry with pairwise different names, after any sequence of
\* add_repo and remove_repo calls no two entries of load_repo_list have the
\* same name; and an add_repo whose name or URL equals that of an existing entry
\* returns failure and leaves the stored registry unchanged.
C15_NamesUnique ==
    /\ \A i, j \in 1..Len(Loaded) : Loaded[i].name = Loaded[j].name => i = j
    /\ (/\ last_op.kind = "add"
        /\ \E i \in 1..Len(load_repo_list(last_op.before)) :
              \/ load_repo_list(last_op.before)[i].name = AddedName
              \/ load_repo_list(last_op.before)[i].url = last_op.url)
       => (~last_op.ret /\ repo_list_text = last_op.before)

(***************************** claims on install_from_git_repo ************)
\* C16: install_from_git_repo installs nothing unless, in this order, the
\* repository was found in the registry, the clone or pull succeeded and the
\* structural check passed; a failed clone or pull makes the call return
\* failure with nothing installed; and the tree a failed clone or pull left
\* behind is not installed from, by that call or by a later one.
C16_InstallOnlyFromGoodClone ==
    /\ (calls # <<>> \/ (git.steps # <<>> /\ git.steps[Len(git.steps)] = "install"))
          => git.steps = <<"lookup", "clone", "check", "install">>
    /\ (git.steps = <<"lookup", "clone">> /\ git.ret # "none")
          => (git.ret = "False" /\ calls = <<>>)
    /\ (git.steps # <<>> /\ git.steps[Len(git.steps)] = "install")
          => git.repo_name \notin git.left_by_failure

(***************************** claims on main ******************************)
\* C17: a command that reports a failure ends with exit status 1, and every
\* lookup of a widget or repository that is not found is such a failure (an
\* install or the detail of a missing widget, a removal of or an install from
\* an unregistered repository, a structural check of a path that does not
\* exist); status 0 is returned only when the requested operation succeeded.
C17_NotFoundIsStatusOne ==
    /\ (command.not_found /\ exit_status # "none") => exit_status = "1"
    /\ (exit_status = "0" /\ command.kind \in {"remove_repo", "install_widget"})
          => command.ret = "True"
    /\ (exit_status = "0" /\ command.kind = "install_from_git") => git.ret = "True"


(***************************** claims on dry-run ****************************)
\* C25: with dry-run active install_from_git_repo makes no change to the
\* filesystem: it creates no clone directory and no clone or pull changes
\* a file.
C25_DryRunChangesNothing == [][config.dry_run => fs' = fs]_vars


(***************************** claims on the repository root ****************)
\* C26: after install_from_git_repo ends, the manager's repository root is
\* the root it had before the call, whether the nested install succeeded,
\* returned a failure or raised an error.
C26_RootRestored ==
    (pc = "git_idle" /\ git.count > 0) => git.root = repo_path


(***************************** claims on install targets ********************)
\* the widget a source file belongs to
WidgetOf(source_path) == source_path[Len(repo_path) + 1]

\* C27: within one install_widget batch two different source files never
\* have the same install target (destination directory plus file name), so
\* no installed file is overwritten by a later file of the batch.
C27_DistinctTargets ==
    \A i, j \in 1..Len(calls) :
        (/\ i < j
         /\ WidgetOf(calls[i].source_path) = WidgetOf(calls[j].source_path)
         /\ calls[i].source_path # calls[j].source_path)
            => TargetOf(calls[i]) # TargetOf(calls[j])


(***************************** claims on the widgets of the main repository *)
\* C28: cloning a remote repository adds no widget to the main repository:
\* list_widgets returns for the main repository root the same widgets
\* before and after the clone step of install_from_git_repo.
C28_CloneAddsNoWidget ==
    [][pc = "git_clone" => list_widgets(fs') = list_widgets(fs)]_vars


(***************************** claims on the copies of a pull ***************)
\* the copy of program that the repository holds in filesystem f
HeldCopy(f, program) == {p \in DOMAIN f : IsUnder(p, env_folder \o <<program>>)}

\* C29: when copying one program directory fails, the copy of that program
\* directory that the repository held when pull_from_config was called is
\* still there afterwards, unchanged.
C29_FailedCopyKeepsOldCopy ==
    \A i \in 1..Len(pulled) :
        pulled[i].ret # "True" =>
            \A p \in HeldCopy(fs_before, pulled[i].program) :
                p \in DOMAIN fs /\ fs[p] = fs_before[p]

====
